---- MODULE Spec2Model ----
(***************************************************************************)
(* Model of the licence-application admin backend: the data-access layer   *)
(* (src/models/userModel.js, class User) and the REST routes of            *)
(* src/Routes/Applications.js, over a PostgreSQL store whose tables are    *)
(* the ones the CREATE TABLE statements of userModel.js declare.           *)
(*                                                                         *)
(* JavaScript values are records [t, v]: t is the type tag, v a sequence   *)
(* of symbols (the characters of a string, the digits of a number, the     *)
(* content of a document).  SQL NULL is the value the driver stores for    *)
(* null and undefined.  Messages are sequences of their parts.             *)
(***************************************************************************)
EXTENDS Integers, Sequences, FiniteSets, TLC

VARIABLES
  applications,  \* rows of table applications (a set of records, one per row)
  appSeq,        \* next value of the SERIAL sequence behind applications.id
  now,           \* CURRENT_TIMESTAMP of the store
  last,          \* what the operation that finished last was given and answered
  procs,         \* the calls in progress, by process: position, connection, error
  idle,          \* connections of the pool that are not checked out
  schema,        \* what is committed of the schema and of the seeded categories
  users,               \* rows of table users
  licence_categories,  \* rows of table licence_categories
  user_sessions        \* rows of table user_sessions

otherTables == <<users, licence_categories, user_sessions>>
storeVars == <<applications, appSeq, now, last, otherTables>>
poolVars == <<procs, idle, schema>>
vars == <<applications, appSeq, now, last, procs, idle, schema, otherTables>>

------------------------------------------------------------------------------
(* JavaScript values *)

Undef == [t |-> "undefined", v |-> <<>>]
Null == [t |-> "null", v |-> <<>>]
Str(s) == [t |-> "string", v |-> s]
S(x) == [t |-> "string", v |-> <<x>>]
Num(d) == [t |-> "number", v |-> <<d>>]
Bool(b) == [t |-> "boolean", v |-> <<b>>]
Arr(c) == [t |-> "array", v |-> <<c>>]
Obj(c) == [t |-> "object", v |-> <<c>>]

\* !x of JavaScript, negated: the value counts as true in a condition
Truthy(x) ==
  CASE x.t \in {"undefined", "null"} -> FALSE
    [] x.t = "string" -> x.v # <<>>
    [] x.t = "number" -> x.v # <<"0">>
    [] x.t = "boolean" -> x.v = <<"true">>
    [] OTHER -> TRUE

\* typeof x === 'object' (true of null, of arrays and of objects)
TypeofObject(x) == x.t \in {"null", "array", "object"}

IsArray(x) == x.t = "array"

\* JSON.stringify(x): the JSON text of a value, a JavaScript string
JSONStringify(x) ==
  CASE x.t = "undefined" -> Undef
    [] x.t = "null" -> Str(<<"null">>)
    [] x.t = "string" -> Str(<<"\"">> \o x.v \o <<"\"">>)
    [] x.t = "array" -> Str(<<"[">> \o x.v \o <<"]">>)
    [] x.t = "object" -> Str(<<"{">> \o x.v \o <<"}">>)
    [] OTHER -> Str(x.v)

\* what the driver sends for a parameter: null and undefined become SQL NULL,
\* a string is sent as it is, a number or a boolean as its text
ToParam(x) ==
  CASE x.t \in {"undefined", "null"} -> Null
    [] x.t = "string" -> x
    [] x.t \in {"number", "boolean"} -> Str(x.v)
    [] OTHER -> JSONStringify(x)

\* the JSONB input function of the store: the document a JSON text denotes
Inner(s) == SubSeq(s, 2, Len(s) - 1)

JsonbIn(p) ==
  IF p.t = "null" THEN Null
  ELSE CASE Head(p.v) = "{" -> [t |-> "object", v |-> Inner(p.v)]
         [] Head(p.v) = "[" -> [t |-> "array", v |-> Inner(p.v)]
         [] Head(p.v) = "\"" -> [t |-> "string", v |-> Inner(p.v)]
         [] p.v = <<"null">> -> [t |-> "jsonnull", v |-> <<>>]
         [] p.v \in {<<"true">>, <<"false">>} -> [t |-> "boolean", v |-> p.v]
         [] OTHER -> [t |-> "number", v |-> p.v]

------------------------------------------------------------------------------
(* Validation helpers *)

ValidStatuses == {"pending", "submitted", "approved", "rejected", "cancelled"}
ValidAdminStatuses == {"unverified", "verified", "on_hold"}

\* a check that takes any non-empty string for a status
IsValidStatusAnyString(x) == x.t = "string" /\ x.v # <<>>

\* validStatuses.includes(status)
IsValidStatus(x) == x.t = "string" /\ Len(x.v) = 1 /\ x.v[1] \in ValidStatuses

\* validateRequiredFields: the fields of data that are missing, in order
RECURSIVE MissingFields(_, _)
MissingFields(data, required) ==
  IF required = <<>> THEN <<>>
  ELSE (IF Truthy(data[Head(required)]) THEN <<>> ELSE <<Head(required)>>)
       \o MissingFields(data, Tail(required))

------------------------------------------------------------------------------
(* The store: table applications as CREATE TABLE declares it *)

\* the columns of applications the model carries; the other columns
\* (date_of_birth, gender, blood_group, doctor_name, hospital, issued_date,
\* expiry_date, is_fit_to_drive, vision, hearing, remarks, photo_url and the
\* payment references) are plain columns handled like full_name and phone
JsonbColumns == {"written_test", "practical_test", "selected_categories"}

\* columns declared NOT NULL
ApplicationsNotNull ==
  {"sub", "application_id", "medical_certificate_id", "full_name", "email",
   "selected_categories"}

\* CHECK (col IN (...)): a CHECK constraint is satisfied unless its
\* expression is false, and NULL IN (...) is NULL, not false
CheckIn(x, allowed) ==
  x = Null \/ (x.t = "string" /\ Len(x.v) = 1 /\ x.v[1] \in allowed)

\* SQLSTATE of the first constraint a new row version breaks, "00000" if none:
\* NOT NULL (23502) is checked before CHECK (23514)
RowViolation(row) ==
  IF \E c \in ApplicationsNotNull : row[c] = Null THEN "23502"
  ELSE IF ~CheckIn(row.status, ValidStatuses)
          \/ ~CheckIn(row.admin_status, ValidAdminStatuses) THEN "23514"
  ELSE "00000"

\* id::text
IdText(n) == Str(<<ToString(n)>>)

\* the value a column takes from a parameter
ColumnIn(col, p) == IF col \in JsonbColumns THEN JsonbIn(p) ELSE p

\* an INSERT ... ON CONFLICT (application_id) DO UPDATE in its place
InsertApplicationUpsert(table, seq, clock, vals) ==
  LET row == [c \in DOMAIN vals |-> ColumnIn(c, vals[c])] @@
             [id |-> seq, admin_status |-> S("unverified"),
              created_at |-> clock, updated_at |-> clock]
      old == {r \in table : r.application_id = row.application_id}
      new == IF old = {} THEN row
             ELSE [row EXCEPT !.id = (CHOOSE r \in old : TRUE).id,
                              !.created_at = (CHOOSE r \in old : TRUE).created_at]
  IN [code |-> RowViolation(row),
      rows |-> IF RowViolation(row) = "00000" THEN {new} ELSE {},
      table |-> IF RowViolation(row) = "00000"
                THEN (table \ old) \cup {new} ELSE table,
      seq |-> seq + 1]

\* INSERT INTO applications (...) VALUES (...) RETURNING *: the row gets the
\* next id and the column defaults; the unique index on application_id is
\* probed after the row's own constraints.  The sequence advances even when
\* the insert fails.
InsertApplication(table, seq, clock, vals) ==
  LET row == [c \in DOMAIN vals |-> ColumnIn(c, vals[c])] @@
             [id |-> seq, admin_status |-> S("unverified"),
              created_at |-> clock, updated_at |-> clock]
      code == IF RowViolation(row) # "00000" THEN RowViolation(row)
              ELSE IF \E r \in table : r.application_id = row.application_id
                   THEN "23505"
              ELSE "00000"
  IN [code |-> code,
      rows |-> IF code = "00000" THEN {row} ELSE {},
      table |-> IF code = "00000" THEN table \cup {row} ELSE table,
      seq |-> seq + 1]

\* WHERE application_id = $n OR id::text = $n OR medical_certificate_id = $n
MatchesAnyKey(r, key) ==
  r.application_id = key \/ IdText(r.id) = key \/ r.medical_certificate_id = key

\* WHERE application_id = $n
MatchesApplicationId(r, key) == r.application_id = key

\* the new version of a row under UPDATE ... SET <set>, updated_at = CURRENT_TIMESTAMP
UpdatedRow(r, set, clock) ==
  [c \in DOMAIN r |->
     IF c = "updated_at" THEN clock
     ELSE IF c \in DOMAIN set THEN ColumnIn(c, set[c])
     ELSE r[c]]

\* UPDATE applications SET ... WHERE ... RETURNING *: every matching row is
\* rewritten, or none when a new row version breaks a constraint
UpdateApplications(table, seq, clock, hit, set) ==
  LET new == {UpdatedRow(r, set, clock) : r \in hit}
      bad == {RowViolation(n) : n \in new} \ {"00000"}
      code == IF bad = {} THEN "00000"
              ELSE IF "23502" \in bad THEN "23502" ELSE "23514"
  IN [code |-> code,
      rows |-> IF code = "00000" THEN new ELSE {},
      table |-> IF code = "00000" THEN (table \ hit) \cup new ELSE table,
      seq |-> seq]

------------------------------------------------------------------------------
(* executeQuery *)

\* what can happen to one executeQuery call besides the statement's own
\* outcome: the pool hands out no connection (connect), SET statement_timeout
\* fails (set), the statement is cancelled by the timeout (timeout)
Envs == {"ok", "connect", "set", "timeout"}

\* the message of an error of the driver or the store
PgMessage(code) == <<"pg", code>>

\* the error executeQuery throws for a failed statement
TranslateError(code) ==
  CASE code = "23505" -> <<"Duplicate entry: Record already exists">>
    [] code = "23503" -> <<"Referenced record does not exist">>
    [] code = "23502" -> <<"Required field is missing">>
    [] OTHER -> PgMessage(code)

\* executeQuery(query, values, operationName): res is what the statement does
\* when the store executes it on table.  sent counts the statements sent on
\* the connection (the SET and the query), calls the calls of executeQuery.
ExecuteQuery(env, res, table, seq) ==
  CASE env = "connect" ->
         [ok |-> FALSE, err |-> PgMessage("08006"), rows |-> {},
          table |-> table, seq |-> seq, sent |-> 0, calls |-> 1]
    [] env = "set" ->
         [ok |-> FALSE, err |-> TranslateError("08006"), rows |-> {},
          table |-> table, seq |-> seq, sent |-> 1, calls |-> 1]
    [] env = "timeout" ->
         [ok |-> FALSE, err |-> TranslateError("57014"), rows |-> {},
          table |-> table, seq |-> seq, sent |-> 2, calls |-> 1]
    [] OTHER ->
         [ok |-> res.code = "00000",
          err |-> IF res.code = "00000" THEN <<>> ELSE TranslateError(res.code),
          rows |-> res.rows, table |-> res.table, seq |-> res.seq, sent |-> 2,
          calls |-> 1]

\* an operation that ends before it calls executeQuery
NoQuery(err, table, seq) ==
  [ok |-> FALSE, err |-> err, rows |-> {}, table |-> table, seq |-> seq,
   sent |-> 0, calls |-> 0]

\* catch (error) { throw new Error(`<prefix>${error.message}`) }
Rethrow(prefix, out) ==
  IF out.ok THEN out ELSE [out EXCEPT !.err = <<prefix>> \o out.err]

------------------------------------------------------------------------------
(* Operations of the model class and of the routes.  Each operator gives     *)
(* the outcome of one call on a given table: what the caller gets, the       *)
(* table and the sequence afterwards.                                        *)

\* data[field] of JavaScript: undefined for a field the object does not have
Get(data, f) == IF f \in DOMAIN data THEN data[f] ELSE Undef

\* a destructuring default: it replaces undefined only
Default(x, d) == IF x = Undef THEN d ELSE x

\* total_amount < 0
IsNegative(x) == x.t = "number" /\ Head(x.v) = "-"

SaveApplicationRequired ==
  <<"sub", "application_id", "selectCategories", "fullName", "email", "dob",
    "doctorName", "hospital", "issuedDate", "expiryDate">>

\* a validation of saveApplication without the check of the shape of
\* selectCategories
SaveApplicationInvalidAnyShape(data) ==
  LET all == [f \in {SaveApplicationRequired[i] :
                       i \in 1..Len(SaveApplicationRequired)} |-> Get(data, f)]
      missing == MissingFields(all, SaveApplicationRequired)
      status == Default(Get(data, "status"), S("pending"))
      total_amount == Default(Get(data, "total_amount"), Num("0"))
      writtenTest == Get(data, "writtenTest")
      practicalTest == Get(data, "practicalTest")
  IN IF missing # <<>> THEN <<"Missing required fields: ">> \o missing
     ELSE IF IsNegative(total_amount)
       THEN <<"Total amount must be a non-negative number">>
     ELSE IF ~IsValidStatus(status) THEN <<"Invalid status. Must be one of: ">>
     ELSE IF Truthy(writtenTest) /\ ~TypeofObject(writtenTest)
       THEN <<"writtenTest must be a valid JSON object">>
     ELSE IF Truthy(practicalTest) /\ ~TypeofObject(practicalTest)
       THEN <<"practicalTest must be a valid JSON object">>
     ELSE <<>>

\* the error of the validation of saveApplication, <<>> when the data pass
SaveApplicationInvalid(data) ==
  LET all == [f \in {SaveApplicationRequired[i] :
                       i \in 1..Len(SaveApplicationRequired)} |-> Get(data, f)]
      missing == MissingFields(all, SaveApplicationRequired)
      selectCategories == Get(data, "selectCategories")
      status == Default(Get(data, "status"), S("pending"))
      total_amount == Default(Get(data, "total_amount"), Num("0"))
      writtenTest == Get(data, "writtenTest")
      practicalTest == Get(data, "practicalTest")
  IN IF missing # <<>> THEN <<"Missing required fields: ">> \o missing
     ELSE IF ~IsArray(selectCategories) /\ ~TypeofObject(selectCategories)
       THEN <<"selected_categories must be a valid array or JSON object">>
     ELSE IF IsNegative(total_amount)
       THEN <<"Total amount must be a non-negative number">>
     ELSE IF ~IsValidStatus(status) THEN <<"Invalid status. Must be one of: ">>
     ELSE IF Truthy(writtenTest) /\ ~TypeofObject(writtenTest)
       THEN <<"writtenTest must be a valid JSON object">>
     ELSE IF Truthy(practicalTest) /\ ~TypeofObject(practicalTest)
       THEN <<"practicalTest must be a valid JSON object">>
     ELSE <<>>

\* the parameters of an INSERT that serialises the written test twice: the
\* store takes the JSON text of a JSON text for a string
SaveApplicationValuesEncodedTwice(data) ==
  [sub |-> ToParam(Get(data, "sub")),
   application_id |-> ToParam(Get(data, "application_id")),
   medical_certificate_id |-> ToParam(Get(data, "medical_certificate_id")),
   selected_categories |-> ToParam(JSONStringify(Get(data, "selectCategories"))),
   status |-> ToParam(Default(Get(data, "status"), S("pending"))),
   total_amount |-> ToParam(Default(Get(data, "total_amount"), Num("0"))),
   full_name |-> ToParam(Get(data, "fullName")),
   email |-> ToParam(Get(data, "email")),
   phone |-> ToParam(Get(data, "phone")),
   written_test |-> IF Truthy(Get(data, "writtenTest"))
                    THEN ToParam(JSONStringify(JSONStringify(Get(data, "writtenTest"))))
                    ELSE Null,
   practical_test |-> IF Truthy(Get(data, "practicalTest"))
                      THEN ToParam(JSONStringify(Get(data, "practicalTest")))
                      ELSE Null]

\* the parameters of the INSERT of saveApplication, by column
SaveApplicationValues(data) ==
  [sub |-> ToParam(Get(data, "sub")),
   application_id |-> ToParam(Get(data, "application_id")),
   medical_certificate_id |-> ToParam(Get(data, "medical_certificate_id")),
   selected_categories |-> ToParam(JSONStringify(Get(data, "selectCategories"))),
   status |-> ToParam(Default(Get(data, "status"), S("pending"))),
   total_amount |-> ToParam(Default(Get(data, "total_amount"), Num("0"))),
   full_name |-> ToParam(Get(data, "fullName")),
   email |-> ToParam(Get(data, "email")),
   phone |-> ToParam(Get(data, "phone")),
   written_test |-> IF Truthy(Get(data, "writtenTest"))
                    THEN ToParam(JSONStringify(Get(data, "writtenTest")))
                    ELSE Null,
   practical_test |-> IF Truthy(Get(data, "practicalTest"))
                      THEN ToParam(JSONStringify(Get(data, "practicalTest")))
                      ELSE Null]

\* User.saveApplication(applicationData)
SaveApplicationCall(data, env, table, seq, clock) ==
  Rethrow("Failed to save application: ",
    IF SaveApplicationInvalid(data) # <<>>
    THEN NoQuery(SaveApplicationInvalid(data), table, seq)
    ELSE ExecuteQuery(env,
           InsertApplication(table, seq, clock, SaveApplicationValues(data)),
           table, seq))

\* User.updateApplicationStatus(applicationId, status)
UpdateApplicationStatusCall(applicationId, status, env, table, seq, clock) ==
  Rethrow("Failed to update application status: ",
    IF ~Truthy(applicationId) \/ ~Truthy(status)
    THEN NoQuery(<<"applicationId and status are required">>, table, seq)
    ELSE IF ~IsValidStatus(status)
    THEN NoQuery(<<"Invalid status. Must be one of: ">>, table, seq)
    ELSE LET out == ExecuteQuery(env,
                      UpdateApplications(table, seq, clock,
                        {r \in table : MatchesApplicationId(r, ToParam(applicationId))},
                        [status |-> ToParam(status)]),
                      table, seq)
         IN IF out.ok /\ out.rows = {}
            THEN [out EXCEPT !.ok = FALSE,
                             !.err = <<"Application '">> \o ToParam(applicationId).v
                                     \o <<"' not found">>]
            ELSE out)

\* res.status(code).json({error}) of a route
Respond(code, err, out) == [out EXCEPT !.ok = FALSE, !.err = err] @@ [http |-> code]

\* what the caller of a route gets: the route's own answer, or, for an error
\* handed to next(), the answer of the error-handling middleware
RouteAnswer(out) ==
  IF "http" \in DOMAIN out THEN out
  ELSE IF out.ok THEN out @@ [http |-> 200]
  ELSE [out EXCEPT !.err = <<"Internal server error">> \o out.err] @@ [http |-> 500]

\* router.patch('/:id/status')
PatchStatusCall(id, body, env, table, seq, clock) ==
  LET status == Get(body, "status")
  IN RouteAnswer(
       IF ~Truthy(status)
       THEN Respond(400, <<"Status is required">>, NoQuery(<<>>, table, seq))
       ELSE IF ~IsValidStatus(status)
       THEN Respond(400, <<"Invalid status value">>, NoQuery(<<>>, table, seq))
       ELSE LET out == ExecuteQuery(env,
                         UpdateApplications(table, seq, clock,
                           {r \in table : MatchesAnyKey(r, ToParam(id))},
                           [status |-> ToParam(status)]),
                         table, seq)
            IN IF out.ok /\ out.rows = {}
               THEN Respond(404, <<"Application not found">>, out)
               ELSE out)

AllowedFields ==
  <<"full_name", "email", "phone", "date_of_birth", "gender", "blood_group",
    "doctor_name", "hospital", "issued_date", "expiry_date", "is_fit_to_drive",
    "vision", "hearing", "remarks", "photo_url", "written_test",
    "practical_test", "selected_categories", "total_amount",
    "payment_reference_id", "payment_transaction_id", "status">>

\* a SET list without the allow-list: every field the body defines
UpdateFieldsAnyField(body) ==
  [f \in {g \in DOMAIN body : body[g] # Undef} |->
     IF f \in JsonbColumns
     THEN (IF Truthy(body[f]) THEN ToParam(JSONStringify(body[f])) ELSE Null)
     ELSE ToParam(body[f])]

\* the SET list of PUT /:id with its parameters: the allow-listed fields the
\* body defines; a document field is serialised, or null when it is falsy
UpdateFields(body) ==
  [f \in {AllowedFields[i] : i \in 1..Len(AllowedFields)} \cap
         {g \in DOMAIN body : body[g] # Undef} |->
     IF f \in JsonbColumns
     THEN (IF Truthy(body[f]) THEN ToParam(JSONStringify(body[f])) ELSE Null)
     ELSE ToParam(body[f])]

\* router.put('/:id')
PutApplicationCall(id, body, env, table, seq, clock) ==
  RouteAnswer(
    IF DOMAIN UpdateFields(body) = {}
    THEN Respond(400, <<"No valid fields to update">>, NoQuery(<<>>, table, seq))
    ELSE LET out == ExecuteQuery(env,
                      UpdateApplications(table, seq, clock,
                        {r \in table : MatchesAnyKey(r, ToParam(id))},
                        UpdateFields(body)),
                      table, seq)
         IN IF out.ok /\ out.rows = {}
            THEN Respond(404, <<"Application not found">>, out)
            ELSE out)

------------------------------------------------------------------------------
(* The connection pool, executeQuery and initTables step by step *)

PoolSize == 1   \* connections of the pool
NumProcs == 2   \* calls in progress at a time
Procs == 1..NumProcs

\* the static methods class User defines
UserMethods ==
  {"logOperation", "isValidEmail", "validateRequiredFields", "executeQuery",
   "createTable", "createLicenceCategoriesTable", "createSessionsTable",
   "createApplicationsTable", "seedLicenceCategories", "initTables", "saveUser",
   "saveMedicalCertificate", "getLicenceCategories", "getLicenceCategoryByCode",
   "addLicenceCategory", "updateLicenceCategory", "deleteLicenceCategory",
   "saveUserSession", "saveApplication", "findBySub", "findApplicationById",
   "getUserApplications", "cleanupExpiredSessions", "updateApplicationStatus",
   "createMedicalCertificatesTable", "getApplicationStats"}

FiveTables ==
  {"users", "licence_categories", "user_sessions", "applications",
   "medical_certificates"}

\* the categories seedLicenceCategories upserts, in order
SeedCategories ==
  <<"category A1", "category A", "category B1", "category B", "category C1",
    "category C", "category D1", "category D">>

\* what initTables does inside its try block, in order: the method it calls
\* (client.query for a statement of its own), the statement sent, and what
\* the statement creates
InitTablesProgram ==
  <<[call |-> "client.query", sql |-> "BEGIN", makes |-> {}],
    [call |-> "client.query", sql |-> "SELECT 1", makes |-> {}],
    [call |-> "createTable", sql |-> "CREATE users",
     makes |-> {"users", "idx_users_sub", "idx_users_email",
                "idx_users_created_at"}],
    [call |-> "createLicenceCategoriesTable", sql |-> "CREATE licence_categories",
     makes |-> {"licence_categories", "idx_categories_code",
                "idx_categories_active", "idx_categories_vehicle_type"}],
    [call |-> "createSessionsTable", sql |-> "CREATE user_sessions",
     makes |-> {"user_sessions", "calculate_expires_at()", "set_expires_at",
                "idx_sessions_session_id", "idx_sessions_sub",
                "idx_sessions_expires_at", "idx_sessions_created_at"}],
    [call |-> "createApplicationsTable", sql |-> "CREATE applications",
     makes |-> {"applications", "idx_applications_app_id",
                "idx_applications_sub", "idx_applications_status"}],
    [call |-> "createMedicalCertificatesTable", sql |-> "CREATE medical_certificates",
     makes |-> {"medical_certificates", "idx_medical_certificates_sub",
                "idx_medical_certificates_certificate_id",
                "idx_medical_certificates_expiry_date"}],
    [call |-> "addAdminStatusField", sql |-> "ALTER applications", makes |-> {}]>>
  \o [i \in 1..Len(SeedCategories) |->
        [call |-> "seedLicenceCategories", sql |-> SeedCategories[i],
         makes |-> {SeedCategories[i]}]]
  \o <<[call |-> "client.query", sql |-> "COMMIT", makes |-> {}]>>

\* a process that has not been given a call: op is the call, pc its
\* position, held the connections it has checked out, acquired and released
\* count its connect() and release(), step is the next step of its try block,
\* tx what its open transaction has created, durable what it has committed,
\* err the error it throws, failed whether a statement or the connect failed,
\* log the statements it has sent
NoCall ==
  [op |-> "none", pc |-> "idle", held |-> 0, acquired |-> 0, released |-> 0,
   step |-> 1, tx |-> {}, durable |-> {}, err |-> <<>>, failed |-> FALSE,
   log |-> <<>>]

\* const client = await db.connect(): a connection is handed out, or the
\* pool reports an error and the call ends with it
Connected(proc, ok) ==
  IF ok THEN [proc EXCEPT !.pc = "try", !.held = 1, !.acquired = @ + 1]
  ELSE [proc EXCEPT !.pc = "done", !.err = PgMessage("08006"), !.failed = TRUE]

\* finally { client.release() }
Released(proc) ==
  [proc EXCEPT !.pc = "done", !.held = 0, !.released = @ + 1]

\* an executeQuery that releases the connection on the success path only
ExecuteQueryStepNoFinally(proc, code) ==
  IF code # "00000"
  THEN [proc EXCEPT !.pc = "done", !.err = TranslateError(code),
                    !.failed = TRUE,
                    !.log = Append(@, IF proc.step = 1 THEN "SET" ELSE "query")]
  ELSE IF proc.step = 1
  THEN [proc EXCEPT !.step = 2, !.log = Append(@, "SET")]
  ELSE [proc EXCEPT !.pc = "finally", !.log = Append(@, "query")]

\* executeQuery after connect: SET statement_timeout, then the query; the
\* first that fails is caught, translated and thrown; then finally
ExecuteQueryStep(proc, code) ==
  IF code # "00000"
  THEN [proc EXCEPT !.pc = "finally", !.err = TranslateError(code),
                    !.failed = TRUE,
                    !.log = Append(@, IF proc.step = 1 THEN "SET" ELSE "query")]
  ELSE IF proc.step = 1
  THEN [proc EXCEPT !.step = 2, !.log = Append(@, "SET")]
  ELSE [proc EXCEPT !.pc = "finally", !.log = Append(@, "query")]

\* one step of the try block of initTables: a call of a method the class
\* does not define throws; a statement that fails throws; COMMIT ends the
\* block
InitTablesStep(proc, ok) ==
  LET s == InitTablesProgram[proc.step]
  IN IF s.call \notin UserMethods \cup {"client.query"}
     THEN [proc EXCEPT !.pc = "catch",
                       !.err = <<"this.", s.call, " is not a function">>]
     ELSE IF ~ok
     THEN [proc EXCEPT !.pc = "catch", !.err = PgMessage("XX000"),
                       !.failed = TRUE, !.log = Append(@, s.sql)]
     ELSE [proc EXCEPT !.pc = IF s.sql = "COMMIT" THEN "finally" ELSE "try",
                       !.step = @ + 1,
                       !.tx = IF s.sql = "COMMIT" THEN {} ELSE @ \cup s.makes,
                       !.durable = IF s.sql = "COMMIT" THEN proc.tx ELSE @,
                       !.log = Append(@, s.sql)]

\* a catch block that throws the error it caught
InitTablesCatchSameError(proc, ok) ==
  IF ok
  THEN [proc EXCEPT !.pc = "finally", !.tx = {}, !.log = Append(@, "ROLLBACK")]
  ELSE [proc EXCEPT !.pc = "finally", !.err = PgMessage("08006"),
                    !.failed = TRUE, !.log = Append(@, "ROLLBACK")]

\* catch (error) { await client.query('ROLLBACK'); throw new Error(...) }:
\* when the ROLLBACK fails its error is the one thrown, and the transaction
\* stays uncommitted
InitTablesCatch(proc, ok) ==
  IF ok
  THEN [proc EXCEPT !.pc = "finally", !.tx = {},
                    !.err = <<"Failed to initialize database tables: ">> \o @,
                    !.log = Append(@, "ROLLBACK")]
  ELSE [proc EXCEPT !.pc = "finally", !.err = PgMessage("08006"),
                    !.failed = TRUE, !.log = Append(@, "ROLLBACK")]

\* a call starts
Start(p, op) ==
  /\ procs[p].pc = "idle"
  /\ procs' = [procs EXCEPT ![p] = [NoCall EXCEPT !.op = op, !.pc = "connect"]]
  /\ UNCHANGED <<idle, schema, storeVars>>

\* db.connect(): a connection is handed out when one is idle; the pool may
\* also give up
Connect(p) ==
  /\ procs[p].pc = "connect"
  /\ \E ok \in BOOLEAN :
       /\ ok => idle > 0
       /\ procs' = [procs EXCEPT ![p] = Connected(@, ok)]
       /\ idle' = IF ok THEN idle - 1 ELSE idle
  /\ UNCHANGED <<schema, storeVars>>

ExecuteQueryRun(p) ==
  /\ procs[p].op = "executeQuery" /\ procs[p].pc = "try"
  /\ \E code \in IF procs[p].step = 1 THEN {"00000", "08006"}
                 ELSE {"00000", "23505", "57014"} :
       procs' = [procs EXCEPT ![p] = ExecuteQueryStep(@, code)]
  /\ UNCHANGED <<idle, schema, storeVars>>

InitTablesRun(p) ==
  /\ procs[p].op = "initTables" /\ procs[p].pc = "try"
  /\ \E ok \in BOOLEAN :
       /\ procs' = [procs EXCEPT ![p] = InitTablesStep(@, ok)]
       /\ schema' = schema \cup InitTablesStep(procs[p], ok).durable
  /\ UNCHANGED <<idle, storeVars>>

InitTablesRollback(p) ==
  /\ procs[p].op = "initTables" /\ procs[p].pc = "catch"
  /\ \E ok \in BOOLEAN : procs' = [procs EXCEPT ![p] = InitTablesCatch(@, ok)]
  /\ UNCHANGED <<idle, schema, storeVars>>

Release(p) ==
  /\ procs[p].pc = "finally"
  /\ procs' = [procs EXCEPT ![p] = Released(@)]
  /\ idle' = idle + procs[p].held
  /\ UNCHANGED <<schema, storeVars>>

------------------------------------------------------------------------------
(* Bounds and inputs *)

MaxId == 3      \* the INSERTs the sequence applications_id_seq serves
MaxClock == 2   \* the instants CURRENT_TIMESTAMP takes

A1 == S("A1")
A2 == S("A2")

\* a complete, valid application
BaseData ==
  [sub |-> S("u1"), application_id |-> A1, medical_certificate_id |-> S("M1"),
   selectCategories |-> Arr("B"), fullName |-> S("Ann"), email |-> S("a@x.lk"),
   dob |-> S("1990-01-01"), doctorName |-> S("Dr"), hospital |-> S("H"),
   issuedDate |-> S("2024-01-01"), expiryDate |-> S("2025-01-01")]

With(data, f, x) == [g \in DOMAIN data \cup {f} |-> IF g = f THEN x ELSE data[g]]

\* what happens to the executeQuery calls of the operations below: all
\* goes well, or the statement is cancelled by the timeout
StoreEnvs == {"ok", "timeout"}

\* the keys a caller names an application by
Keys == {A1, A2, S("1"), S("none")}

\* status values callers pass to the updates: a valid one, an unknown one,
\* a number, the empty string, null, and none at all
StatusInputs == {S("rejected"), S("bogus"), Num("5"), Str(<<>>), Null, Undef}

\* applications given to saveApplication
SaveInputs ==
  {With(With(BaseData, "application_id", a), "status", s) :
     a \in {A1, A2}, s \in {Undef, S("approved"), S("bogus")}}
  \cup {With(BaseData, "fullName", Undef),
        With(BaseData, "medical_certificate_id", Undef)}

\* bodies given to PUT /:id
PutBodies ==
  {[status |-> S("rejected")], [status |-> S("bogus")], [status |-> Null],
   <<>>, [admin_status |-> S("verified")],
   [status |-> S("approved"), full_name |-> Null]}

------------------------------------------------------------------------------
(* Actions: one call of an operation, from request to answer *)

\* the call ends: the store is as the call left it, and last keeps what the
\* call was given (key, in), what it answered, whether its key named a stored
\* application_id before the call (existed) and whether it changed the table
Finish(op, key, in, out) ==
  /\ applications' = out.table
  /\ appSeq' = out.seq
  /\ last' = [op |-> op, key |-> key, in |-> in, ok |-> out.ok,
              http |-> IF "http" \in DOMAIN out THEN out.http ELSE 0,
              err |-> out.err, sent |-> out.sent, calls |-> out.calls,
              returned |-> Cardinality(out.rows),
              existed |-> \E r \in applications : r.application_id = key,
              changed |-> out.table # applications]
  /\ UNCHANGED <<now, procs, idle, schema, otherTables>>

SaveApplication(data, env) ==
  /\ appSeq <= MaxId
  /\ Finish("saveApplication", Get(data, "application_id"), data,
            SaveApplicationCall(data, env, applications, appSeq, now))

UpdateApplicationStatus(applicationId, status, env) ==
  Finish("updateApplicationStatus", applicationId, [status |-> status],
         UpdateApplicationStatusCall(applicationId, status, env,
                                     applications, appSeq, now))

PatchStatus(id, body, env) ==
  Finish("PATCH /:id/status", id, body,
         PatchStatusCall(id, body, env, applications, appSeq, now))

PutApplication(id, body, env) ==
  Finish("PUT /:id", id, body,
         PutApplicationCall(id, body, env, applications, appSeq, now))

Tick ==
  /\ now < MaxClock
  /\ now' = now + 1
  /\ UNCHANGED <<applications, appSeq, last, procs, idle, schema, otherTables>>

\* the tables exist and are empty, no operation has run
Init ==
  /\ applications = {}
  /\ appSeq = 1
  /\ now = 1
  /\ last = [op |-> "none", key |-> Undef, in |-> <<>>, ok |-> TRUE, http |-> 0,
             err |-> <<>>, sent |-> 0, calls |-> 0, returned |-> 0,
             existed |-> FALSE, changed |-> FALSE]
  /\ procs = [p \in Procs |-> NoCall]
  /\ idle = PoolSize
  /\ schema = FiveTables
  /\ users = {}
  /\ licence_categories = {}
  /\ user_sessions = {}

Next ==
  \/ \E data \in SaveInputs, env \in StoreEnvs : SaveApplication(data, env)
  \/ \E id \in {A1, S("none"), Undef}, status \in StatusInputs, env \in StoreEnvs :
       UpdateApplicationStatus(id, status, env)
  \/ \E id \in Keys, status \in StatusInputs, env \in StoreEnvs :
       PatchStatus(id, IF status = Undef THEN <<>> ELSE [status |-> status], env)
  \/ \E id \in Keys, body \in PutBodies, env \in StoreEnvs :
       PutApplication(id, body, env)

Spec == Init /\ [][Next]_vars

------------------------------------------------------------------------------
(* Claims about the status columns and about inserts, under Spec *)

StatusValues == {S(x) : x \in ValidStatuses}
AdminStatusValues == {S(x) : x \in ValidAdminStatuses}

StatusWriters ==
  {"saveApplication", "updateApplicationStatus", "PATCH /:id/status", "PUT /:id"}

\* C1: every stored application has a status among pending, submitted,
\* approved, rejected, cancelled and an admin_status among unverified,
\* verified, on_hold, and a call that is given another status fails and
\* leaves the table as it was.
C1_StatusRestricted ==
  /\ \A r \in applications :
       r.status \in StatusValues /\ r.admin_status \in AdminStatusValues
  /\ (/\ last.op \in StatusWriters
      /\ Get(last.in, "status") \notin StatusValues \cup {Undef})
     => (~last.ok /\ ~last.changed)

\* C2: updateApplicationStatus and PATCH /:id/status given no status or one
\* outside the five fail with their validation error (400 on the route)
\* before executeQuery is called: nothing is sent and no row changes.
C2_InvalidStatusRejected ==
  (/\ last.op \in {"updateApplicationStatus", "PATCH /:id/status"}
   /\ Get(last.in, "status") \notin StatusValues)
  => /\ ~last.ok
     /\ last.calls = 0
     /\ last.sent = 0
     /\ ~last.changed
     /\ last.op = "PATCH /:id/status" =>
          /\ last.http = 400
          /\ last.err \in {<<"Status is required">>, <<"Invalid status value">>}
     /\ last.op = "updateApplicationStatus" =>
          last.err \in
            {<<"Failed to update application status: ",
               "applicationId and status are required">>,
             <<"Failed to update application status: ",
               "Invalid status. Must be one of: ">>}

\* an unknown status was given for an application that is stored
C2_Witness ==
  /\ last.op = "updateApplicationStatus"
  /\ last.in.status = S("bogus")
  /\ last.existed
  /\ last.calls = 0

\* the application would be stored if its application_id were new
C3_Storable(data) ==
  /\ \A f \in DOMAIN BaseData : Truthy(Get(data, f))
  /\ Get(data, "status") \in StatusValues \cup {Undef}

\* C3: application_id is unique, and saveApplication for an application_id
\* that is stored fails with a message that starts with 'Failed to save
\* application: ' and leaves the table as it was; for an application that
\* is otherwise storable, and unless the statement is cancelled, the message
\* is 'Failed to save application: Duplicate entry: Record already exists'.
C3_InsertOnly ==
  /\ \A r1, r2 \in applications :
       r1.application_id = r2.application_id => r1 = r2
  /\ (last.op = "saveApplication" /\ last.existed)
     => /\ ~last.ok
        /\ ~last.changed
        /\ Head(last.err) = "Failed to save application: "
        /\ (/\ C3_Storable(last.in)
            /\ Tail(last.err) # PgMessage("57014"))
           => last.err = <<"Failed to save application: ",
                           "Duplicate entry: Record already exists">>

\* a second application is refused while two are stored
C3_Witness ==
  /\ last.op = "saveApplication"
  /\ last.existed
  /\ last.err = <<"Failed to save application: ",
                  "Duplicate entry: Record already exists">>
  /\ Cardinality(applications) = 2

------------------------------------------------------------------------------
(* The document columns: saveApplication and PUT /:id given documents of     *)
(* every shape                                                               *)

\* applications that differ from a valid one in one document field
SaveDocInputs ==
  {With(BaseData, "selectCategories", c) :
     c \in {Arr("B"), Obj("B"), S("B"), Num("5"), Bool("true"), Null, Undef}}
  \cup {With(BaseData, "writtenTest", w) :
          w \in {Obj("w"), Arr("w"), S("w"), Num("0")}}
  \cup {With(BaseData, "practicalTest", x) : x \in {Obj("p"), Num("7")}}

\* bodies of PUT /:id that set document fields
PutDocBodies ==
  {[selected_categories |-> c] : c \in {Obj("C"), S("B"), Num("0"), Null}}
  \cup {[written_test |-> w] : w \in {Obj("w"), S("w"), Bool("false"), Null}}
  \cup {[practical_test |-> x] : x \in {Arr("p"), Num("7")}}
  \cup {[written_test |-> Obj("w"), selected_categories |-> Null]}

NextDoc ==
  \/ \E data \in SaveDocInputs, env \in StoreEnvs : SaveApplication(data, env)
  \/ \E id \in {A1, S("none")}, body \in PutDocBodies, env \in StoreEnvs :
       PutApplication(id, body, env)

SpecDoc == Init /\ [][NextDoc]_vars

\* C4: every stored application has a selected_categories document that is
\* an array or an object, and written_test and practical_test are each NULL
\* or an object (arrays, which typeof calls objects, are let through here).
C4_DocumentShapes ==
  \A r \in applications :
    /\ r.selected_categories.t \in {"array", "object"}
    /\ r.written_test = Null \/ r.written_test.t \in {"array", "object"}
    /\ r.practical_test = Null \/ r.practical_test.t \in {"array", "object"}

------------------------------------------------------------------------------
(* Concurrent calls of executeQuery and initTables on a new database *)

\* nothing is created yet, no call is in progress
InitPool ==
  /\ applications = {}
  /\ appSeq = 1
  /\ now = 1
  /\ last = [op |-> "none", key |-> Undef, in |-> <<>>, ok |-> TRUE, http |-> 0,
             err |-> <<>>, sent |-> 0, calls |-> 0, returned |-> 0,
             existed |-> FALSE, changed |-> FALSE]
  /\ procs = [p \in Procs |-> NoCall]
  /\ idle = PoolSize
  /\ schema = {}
  /\ users = {}
  /\ licence_categories = {}
  /\ user_sessions = {}

NextPool ==
  \E p \in Procs :
    \/ \E op \in {"executeQuery", "initTables"} : Start(p, op)
    \/ Connect(p)
    \/ ExecuteQueryRun(p)
    \/ InitTablesRun(p)
    \/ InitTablesRollback(p)
    \/ Release(p)

SpecPool == InitPool /\ [][NextPool]_vars

\* C5: a call holds at most the one connection it acquired and has given
\* it back exactly once when it has ended, however it ended; the pool's
\* connections are all accounted for, and all are idle when no call is in
\* progress.
C5_ReleasedOnce ==
  /\ \A p \in Procs :
       /\ procs[p].acquired <= 1
       /\ procs[p].held = procs[p].acquired - procs[p].released
       /\ procs[p].pc = "done" =>
            procs[p].released = procs[p].acquired /\ procs[p].held = 0
  /\ idle + Cardinality({p \in Procs : procs[p].held = 1}) = PoolSize
  /\ (\A p \in Procs : procs[p].pc \in {"idle", "done"}) => idle = PoolSize

\* an executeQuery whose SET failed and an initTables that failed have both
\* ended and given back their connection
C5_Witness ==
  \E p, q \in Procs :
    /\ procs[p].op = "executeQuery" /\ procs[p].pc = "done"
    /\ procs[p].log = <<"SET">> /\ procs[p].released = 1
    /\ procs[q].op = "initTables" /\ procs[q].pc = "done"
    /\ procs[q].err # <<>> /\ procs[q].released = 1
    /\ idle = PoolSize

InitTablesPrefix == "Failed to initialize database tables: "

\* C6 as stated: an initTables that acquired its connection and failed has
\* rolled back, throws an error prefixed 'Failed to initialize database
\* tables: ' and has committed nothing.
C6_FailureRollsBackPrefixed ==
  \A p \in Procs :
    (/\ procs[p].op = "initTables" /\ procs[p].pc = "done"
     /\ procs[p].acquired = 1 /\ procs[p].err # <<>>)
    => /\ procs[p].log[Len(procs[p].log)] = "ROLLBACK"
       /\ Head(procs[p].err) = InitTablesPrefix
       /\ procs[p].durable = {}

\* C6 amended: an initTables that acquired its connection and failed has
\* sent ROLLBACK as its last statement, throws, and has committed nothing;
\* the error is prefixed 'Failed to initialize database tables: ' and the
\* transaction is undone when the ROLLBACK succeeded, and the error is the
\* ROLLBACK's own, unprefixed, when the ROLLBACK failed.
C6_FailureRollsBack ==
  \A p \in Procs :
    (/\ procs[p].op = "initTables" /\ procs[p].pc = "done"
     /\ procs[p].acquired = 1 /\ procs[p].err # <<>>)
    => /\ procs[p].log[Len(procs[p].log)] = "ROLLBACK"
       /\ procs[p].durable = {}
       /\ \/ Head(procs[p].err) = InitTablesPrefix /\ procs[p].tx = {}
          \/ procs[p].err = PgMessage("08006") /\ procs[p].failed

\* the creation of user_sessions failed after two tables were created, and
\* the call has rolled back and thrown the prefixed error
C6_Witness ==
  \E p \in Procs :
    /\ procs[p].op = "initTables" /\ procs[p].pc = "done"
    /\ procs[p].log = <<"BEGIN", "SELECT 1", "CREATE users",
                        "CREATE licence_categories", "CREATE user_sessions",
                        "ROLLBACK">>
    /\ procs[p].err = <<InitTablesPrefix>> \o PgMessage("XX000")
    /\ procs[p].tx = {}

\* the statements of a complete initTables, in order
InitTablesStatements ==
  <<"BEGIN", "SELECT 1", "CREATE users", "CREATE licence_categories",
    "CREATE user_sessions", "CREATE applications",
    "CREATE medical_certificates">> \o SeedCategories \o <<"COMMIT">>

\* C7: an initTables that connected and none of whose statements failed has
\* sent the probe, the five creations and the eight seeding statements in
\* this order inside one transaction and has committed: the five tables and
\* the eight categories exist.
C7_InitTablesCommits ==
  \A p \in Procs :
    (/\ procs[p].op = "initTables" /\ procs[p].pc = "done"
     /\ ~procs[p].failed)
    => /\ procs[p].log = InitTablesStatements
       /\ procs[p].err = <<>>
       /\ FiveTables \subseteq schema
       /\ {SeedCategories[i] : i \in 1..Len(SeedCategories)} \subseteq schema


------------------------------------------------------------------------------
(* Listings: GET / and GET /user/:sub.  A text value is a sequence of        *)
(* symbols; a symbol is a character, or a word that has no case and no       *)
(* wildcard in it.  LIKE's escape character does not occur in the inputs.    *)

\* lower(c), as ILIKE folds both sides
Lower(c) == CASE c = "A" -> "a" [] c = "B" -> "b" [] c = "X" -> "x" [] OTHER -> c

\* str LIKE pat after folding: % stands for any text, _ for any one character
RECURSIVE LikeMatch(_, _)
LikeMatch(pat, str) ==
  IF pat = <<>> THEN str = <<>>
  ELSE IF Head(pat) = "%"
       THEN LikeMatch(Tail(pat), str)
            \/ (str # <<>> /\ LikeMatch(pat, Tail(str)))
  ELSE /\ str # <<>>
       /\ Head(pat) = "_" \/ Lower(Head(pat)) = Lower(Head(str))
       /\ LikeMatch(Tail(pat), Tail(str))

\* x ILIKE p: NULL ILIKE p is not true
ILike(x, p) == x # Null /\ LikeMatch(p.v, x.v)

\* `%${search}%`
SearchPattern(search) == Str(<<"%">> \o search.v \o <<"%">>)

\* the columns the search condition names
SearchColumns ==
  {"application_id", "medical_certificate_id", "sub", "full_name", "email"}

\* the WHERE clause GET / builds from status and search
WhereConditions(r, q) ==
  /\ (Truthy(Get(q, "status")) /\ Get(q, "status") # S("all"))
       => r.status = Get(q, "status")
  /\ Truthy(Get(q, "search"))
       => \E c \in SearchColumns : ILike(r[c], SearchPattern(Get(q, "search")))

\* the default of limit in GET /, and in GET /user/:sub
DefaultLimit == 100
DefaultUserLimit == 10

\* parseInt(x), and the number the operators - * < > make of x, for x a
\* decimal numeral
ParseInt(x) == CHOOSE n \in 0..DefaultLimit : ToString(n) = Head(x.v)

\* Math.ceil(n / d) for d >= 1
Ceil(n, d) == (n + d - 1) \div d

\* const { page = 1, limit = 100 } = req.query, as the number that parseInt
\* and the operators - * < > make of it
NumberOr(x, d) == IF x = Undef THEN d ELSE ParseInt(x)

\* const offset = (page - 1) * limit, taking page for page - 1
OffsetFromPage(page, limit) == page * limit

\* const offset = (page - 1) * limit
Offset(page, limit) == (page - 1) * limit


\* const validSortColumns = [...]
ValidSortColumns ==
  {"created_at", "updated_at", "full_name", "status", "expiry_date",
   "application_id", "medical_certificate_id"}

\* the sort column taken from sortBy as it comes
SortColumnAny(sortBy) == IF Len(sortBy.v) = 1 THEN Head(sortBy.v) ELSE "created_at"

\* validSortColumns.includes(sortBy) ? sortBy : 'created_at'
SortColumn(sortBy) ==
  IF sortBy.t = "string" /\ Len(sortBy.v) = 1 /\ Head(sortBy.v) \in ValidSortColumns
  THEN Head(sortBy.v) ELSE "created_at"

\* sortOrder.toUpperCase()
ToUpperCase(x) ==
  IF x.v \in {<<"asc">>, <<"Asc">>} THEN S("ASC")
  ELSE IF x.v = <<"desc">> THEN S("DESC") ELSE x

\* sortOrder.toUpperCase() === 'ASC' ? 'ASC' : 'DESC'
SortOrder(sortOrder) == IF ToUpperCase(sortOrder) = S("ASC") THEN "ASC" ELSE "DESC"

\* the column and the direction of ORDER BY in GET /
OrderBy(q) ==
  [col |-> SortColumn(Default(Get(q, "sortBy"), S("created_at"))),
   order |-> SortOrder(Default(Get(q, "sortOrder"), S("DESC")))]

\* the order of the symbols in the collation of the text columns
Collation ==
  <<"%", "_", "1", "2", "3", "a", "A", "b", "B", "x", "X", "z",
    "approved", "pending", "rejected">>

Rank(c) == CHOOSE i \in 1..Len(Collation) : Collation[i] = c

\* a < b for two texts
RECURSIVE TextLess(_, _)
TextLess(a, b) ==
  IF b = <<>> THEN FALSE
  ELSE IF a = <<>> THEN TRUE
  ELSE IF Head(a) # Head(b) THEN Rank(Head(a)) < Rank(Head(b))
  ELSE TextLess(Tail(a), Tail(b))

\* r1 sorts before r2 under ORDER BY col ASC: timestamps by instant, texts by
\* collation, NULL after every value
ColumnLess(r1, r2, col) ==
  IF col \in {"created_at", "updated_at"} THEN r1[col] < r2[col]
  ELSE IF col \notin DOMAIN r1 \/ r1[col] = Null THEN FALSE
  ELSE IF r2[col] = Null THEN TRUE
  ELSE TextLess(r1[col].v, r2[col].v)

\* the sequences that list every row of rows once
Listings(rows) ==
  {f \in [1..Cardinality(rows) -> rows] :
     \A i, j \in 1..Cardinality(rows) : f[i] = f[j] => i = j}

\* ORDER BY col order: the orders in which the store may return rows; rows
\* with equal keys come in any order
Orderings(rows, col, order) ==
  {f \in Listings(rows) :
     \A i, j \in 1..Cardinality(rows) :
       i < j => IF order = "ASC" THEN ~ColumnLess(f[j], f[i], col)
                ELSE ~ColumnLess(f[i], f[j], col)}

\* the rows in the order the store returns them in under ORDER BY col order,
\* when it meets them in the order heap: rows with equal keys stay in the
\* order in which they are met.  Every member of Orderings is returned for
\* some heap.
OrderedRows(rows, col, order, heap) ==
  CHOOSE f \in Orderings(rows, col, order) :
    \A i, j \in 1..Cardinality(rows) :
      (i < j /\ ~ColumnLess(f[i], f[j], col) /\ ~ColumnLess(f[j], f[i], col))
        => \E a, b \in 1..Len(heap) : a < b /\ heap[a] = f[i] /\ heap[b] = f[j]

\* SELECT ... LIMIT limit OFFSET offset over the ordered rows; a negative
\* OFFSET is an error of the statement
SelectPage(ordered, limit, offset, table, seq) ==
  IF offset < 0
  THEN [code |-> "2201X", rows |-> <<>>, table |-> table, seq |-> seq]
  ELSE [code |-> "00000",
        rows |-> [k \in 1..(IF Len(ordered) - offset < limit
                            THEN (IF Len(ordered) > offset
                                  THEN Len(ordered) - offset ELSE 0)
                            ELSE limit) |-> ordered[offset + k]],
        table |-> table, seq |-> seq]

\* a SELECT COUNT(*) without the WHERE clause of the page query
SelectCountAll(rows, table, seq) ==
  [code |-> "00000", rows |-> <<[count |-> Str(<<ToString(Cardinality(table))>>)]>>,
   table |-> table, seq |-> seq]

\* SELECT COUNT(*): one row, the count as the text of a bigint
SelectCount(rows, table, seq) ==
  [code |-> "00000", rows |-> <<[count |-> Str(<<ToString(Cardinality(rows))>>)]>>,
   table |-> table, seq |-> seq]


\* await Promise.all([a, b]): both calls are made; it rejects with the
\* rejection that comes first, first says which when both calls reject
PromiseAll(a, b, first) ==
  [ok |-> a.ok /\ b.ok,
   err |-> IF a.ok /\ b.ok THEN <<>>
           ELSE IF ~a.ok /\ (b.ok \/ first = 1) THEN a.err ELSE b.err,
   page |-> a.rows, count |-> b.rows,
   sent |-> a.sent + b.sent, calls |-> a.calls + b.calls]

\* res.json({applications, pagination: {...}}) after sent statements of
\* calls calls of executeQuery
ListAnswer(both, page, limit, sent, calls, table, seq) ==
  LET totalCount == ParseInt(both.count[1].count)
      totalPages == Ceil(totalCount, limit)
  IN [ok |-> TRUE, err |-> <<>>, rows |-> both.page, table |-> table,
      seq |-> seq, sent |-> sent, calls |-> calls, http |-> 200,
      pagination |-> [currentPage |-> page, totalPages |-> totalPages,
                      totalCount |-> totalCount,
                      hasNext |-> page < totalPages,
                      hasPrev |-> page > 1]]

\* next(error) of a listing route
ListError(err, sent, calls, table, seq) ==
  RouteAnswer([ok |-> FALSE, err |-> err, rows |-> <<>>, table |-> table,
               seq |-> seq, sent |-> sent, calls |-> calls])

\* the texts JSON.parse accepts; a digit stands for a number
IsJsonText(v) ==
  /\ v # <<>>
  /\ \/ Head(v) \in {"{", "[", "\""}
     \/ v \in {<<"null">>, <<"true">>, <<"false">>}
     \/ Len(v) = 1 /\ Head(v) \in {"0", "1", "2", "3", "4", "5", "6", "7", "8", "9"}

\* JSON.parse(x) of a string x that is a JSON text
JSONParse(x) ==
  CASE Head(x.v) = "{" -> [t |-> "object", v |-> Inner(x.v)]
    [] Head(x.v) = "[" -> [t |-> "array", v |-> Inner(x.v)]
    [] Head(x.v) = "\"" -> [t |-> "string", v |-> Inner(x.v)]
    [] x.v = <<"null">> -> Null
    [] x.v \in {<<"true">>, <<"false">>} -> [t |-> "boolean", v |-> x.v]
    [] OTHER -> [t |-> "number", v |-> x.v]

\* the JavaScript value the driver makes of a column: the document of a
\* JSONB column parsed, a JSON null as null
JsonbOut(x) == IF x.t = "jsonnull" THEN Null ELSE x

\* a row as the driver hands it to the handler
RowOut(r) ==
  [c \in DOMAIN r |-> IF c \in JsonbColumns THEN JsonbOut(r[c]) ELSE r[c]]

\* if (app.f && typeof app.f === 'string') is true of document field f
IsParsed(app, f) == Truthy(app[f]) /\ app[f].t = "string"

\* JSON.parse throws a SyntaxError on a document field of the row
ParseThrows(app) == \E f \in JsonbColumns : IsParsed(app, f) /\ ~IsJsonText(app[f].v)

\* the row after the "Parse JSONB fields" step of the handlers
ParseJsonbFields(app) ==
  [c \in DOMAIN app |->
     IF c \in JsonbColumns /\ IsParsed(app, c) THEN JSONParse(app[c]) ELSE app[c]]

\* applicationsResult.rows.map(app => ...) after Promise.all: the rows with
\* their document fields parsed, or the SyntaxError of JSON.parse
ParseJsonb(both) ==
  IF ~both.ok THEN both
  ELSE IF \E k \in DOMAIN both.page : ParseThrows(RowOut(both.page[k]))
  THEN [both EXCEPT !.ok = FALSE, !.err = <<"Unexpected token">>]
  ELSE [both EXCEPT !.page = [k \in DOMAIN both.page |->
                                ParseJsonbFields(RowOut(both.page[k]))]]

\* router.get('/') with the catch (dbError) block taken out: the error of the
\* filtered queries goes to next()
GetApplicationsCallNoFallback(q, envs, heap, first, table, seq) ==
  LET page == NumberOr(Get(q, "page"), 1)
      limit == NumberOr(Get(q, "limit"), DefaultLimit)
      offset == Offset(page, limit)
      ordered == OrderedRows({r \in table : WhereConditions(r, q)},
                             OrderBy(q).col, OrderBy(q).order, heap)
      simple == OrderedRows(table, "created_at", "DESC", heap)
      main == ParseJsonb(PromiseAll(
                ExecuteQuery(envs[1],
                  SelectPage(ordered, limit, offset, table, seq),
                  table, seq),
                ExecuteQuery(envs[2],
                  SelectCount({r \in table : WhereConditions(r, q)}, table, seq),
                  table, seq),
                first))
  IN (IF main.ok
      THEN ListAnswer(main, page, limit, main.sent, main.calls, table, seq)
      ELSE ListError(main.err, main.sent, main.calls, table, seq))
     @@ [orderBy |-> OrderBy(q)]

\* router.get('/'): heap is the order in which the store meets the rows
GetApplicationsCall(q, envs, heap, first, table, seq) ==
  LET page == NumberOr(Get(q, "page"), 1)
      limit == NumberOr(Get(q, "limit"), DefaultLimit)
      offset == Offset(page, limit)
      ordered == OrderedRows({r \in table : WhereConditions(r, q)},
                             OrderBy(q).col, OrderBy(q).order, heap)
      simple == OrderedRows(table, "created_at", "DESC", heap)
      main == ParseJsonb(PromiseAll(
                ExecuteQuery(envs[1],
                  SelectPage(ordered, limit, offset, table, seq),
                  table, seq),
                ExecuteQuery(envs[2],
                  SelectCount({r \in table : WhereConditions(r, q)}, table, seq),
                  table, seq),
                first))
      fallback == ParseJsonb(PromiseAll(
                    ExecuteQuery(envs[3],
                      SelectPage(simple, limit, offset, table, seq),
                      table, seq),
                    ExecuteQuery(envs[4], SelectCount(table, table, seq),
                                 table, seq),
                    first))
  IN (IF main.ok
      THEN ListAnswer(main, page, limit, main.sent, main.calls, table, seq)
      ELSE IF fallback.ok
      THEN ListAnswer(fallback, page, limit, main.sent + fallback.sent,
                      main.calls + fallback.calls, table, seq)
      ELSE ListError(fallback.err, main.sent + fallback.sent,
                     main.calls + fallback.calls, table, seq))
     @@ [orderBy |-> OrderBy(q)]

\* router.get('/user/:sub')
GetUserApplicationsCall(sub, q, envs, heap, first, table, seq) ==
  LET page == NumberOr(Get(q, "page"), 1)
      limit == NumberOr(Get(q, "limit"), DefaultUserLimit)
      offset == Offset(page, limit)
      ordered == OrderedRows({r \in table : r.sub = sub}, "created_at", "DESC",
                             heap)
      both == ParseJsonb(PromiseAll(
                ExecuteQuery(envs[1],
                  SelectPage(ordered, limit, offset, table, seq),
                  table, seq),
                ExecuteQuery(envs[2],
                  SelectCount({r \in table : r.sub = sub}, table, seq),
                  table, seq),
                first))
  IN (IF both.ok
      THEN ListAnswer(both, page, limit, both.sent, both.calls, table, seq)
      ELSE ListError(both.err, both.sent, both.calls, table, seq))
     @@ [orderBy |-> [col |-> "created_at", order |-> "DESC"]]


\* three applications of two users, with names to search for
ListData(n, name, status, sub) ==
  [BaseData EXCEPT !.application_id = Str(<<"X", n>>), !.fullName = Str(name),
                   !.sub = S(sub)] @@ [status |-> status]

ListApplications ==
  <<ListData("1", <<"x", "_">>, Undef, "u1"),
    ListData("2", <<"a", "b">>, S("approved"), "u2"),
    ListData("3", <<"B">>, Undef, "u1")>>

\* query strings of GET /
ListQueries ==
  {<<>>}
  \cup {[search |-> Str(s)] :
          s \in {<<>>, <<"b">>, <<"a", "B">>, <<"_">>, <<"%">>, <<"z">>}}
  \cup {[status |-> S(st)] : st \in {"all", "approved", "bogus"}}
  \cup {[search |-> Str(<<"b">>), status |-> S("approved")]}
  \cup {[page |-> S(p), limit |-> S(l)] : p \in {"0", "1", "2", "3"}, l \in {"1", "2"}}
  \cup {[page |-> S("2")],
        [status |-> S("pending"), page |-> S("2"), limit |-> S("1")]}
  \cup {[sortBy |-> S("full_name"), sortOrder |-> S(o)] :
          o \in {"asc", "Asc", "ASC", "desc", "up"}}
  \cup {[sortBy |-> S(c)] :
          c \in {"status", "application_id", "expiry_date", "admin_status", "id"}}
  \cup {[sortBy |-> S("id; --"), sortOrder |-> S("ASC"), limit |-> S("2")]}

\* what happens to the filtered page query, its count query, the fallback
\* page query and its count query, when not all goes well
ListFailures ==
  {<<"timeout", "ok", "ok", "ok">>, <<"ok", "timeout", "ok", "ok">>,
   <<"timeout", "ok", "timeout", "ok">>, <<"timeout", "ok", "ok", "timeout">>,
   <<"ok", "timeout", "ok", "timeout">>}

\* requests of GET /: every query string when all goes well, and some of
\* them with failing statements
ListRequests ==
  {[q |-> q, envs |-> <<"ok", "ok", "ok", "ok">>, first |-> 1] : q \in ListQueries}
  \cup {[q |-> q, envs |-> e, first |-> 1] :
          q \in {<<>>, [search |-> Str(<<"z">>)],
                 [page |-> S("2"), limit |-> S("1")]},
          e \in ListFailures}
  \cup {[q |-> [page |-> S("0"), limit |-> S("1")],
         envs |-> <<"ok", "timeout", "ok", "timeout">>, first |-> f] :
          f \in {1, 2}}

\* query strings of GET /user/:sub
UserQueries ==
  {<<>>, [limit |-> S("2")], [page |-> S("0")]}
  \cup {[page |-> S(p), limit |-> S("1")] : p \in {"1", "2"}}

\* requests of GET /user/:sub
UserRequests ==
  {[sub |-> S(u), q |-> q, envs |-> <<"ok", "ok">>, first |-> 1] :
     u \in {"u1", "u2", "none"}, q \in UserQueries}
  \cup {[sub |-> S("u1"), q |-> <<>>, envs |-> e, first |-> 1] :
          e \in {<<"timeout", "ok">>, <<"ok", "timeout">>}}
  \cup {[sub |-> S("u1"), q |-> [page |-> S("0")],
         envs |-> <<"ok", "timeout">>, first |-> f] : f \in {1, 2}}

\* a listing ends: the store is untouched, last keeps the query, what
\* happened to the statements, the ORDER BY clause the handler built, the
\* ids of the rows answered in their order, and the pagination object
ListDigest(op, key, q, envs, out) ==
  [op |-> op, key |-> key, in |-> q, envs |-> envs, ok |-> out.ok,
   http |-> out.http, err |-> out.err, sent |-> out.sent,
   calls |-> out.calls, returned |-> Len(out.rows),
   existed |-> FALSE, changed |-> FALSE, orderBy |-> out.orderBy,
   list |-> [k \in 1..Len(out.rows) |-> out.rows[k].id],
   docs |-> [k \in 1..Len(out.rows) |-> out.rows[k].written_test],
   pagination |-> IF "pagination" \in DOMAIN out
                  THEN out.pagination ELSE <<>>]

FinishList(op, key, q, envs, out) ==
  /\ last' = ListDigest(op, key, q, envs, out)
  /\ UNCHANGED <<applications, appSeq, now, procs, idle, schema, otherTables>>

GetApplications(q, envs, first) ==
  \E heap \in Listings(applications) :
    FinishList("GET /", Undef, q, envs,
               GetApplicationsCall(q, envs, heap, first, applications, appSeq))

GetUserApplications(sub, q, envs, first) ==
  \E heap \in Listings(applications) :
    FinishList("GET /user/:sub", sub, q, envs,
               GetUserApplicationsCall(sub, q, envs, heap, first,
                                       applications, appSeq))

\* the applications are saved one after the other, at any instants
NextList ==
  \/ /\ Cardinality(applications) < Len(ListApplications)
     /\ SaveApplication(ListApplications[Cardinality(applications) + 1], "ok")
  \/ Tick
  \/ \E x \in ListRequests : GetApplications(x.q, x.envs, x.first)
  \/ \E x \in UserRequests : GetUserApplications(x.sub, x.q, x.envs, x.first)

SpecList == Init /\ [][NextList]_vars


------------------------------------------------------------------------------
(* Claims about the listings, under SpecList *)

\* the stored application with this id
RowOf(id) == CHOOSE r \in applications : r.id = id

\* text x has s in it, letters compared without case
ContainsIgnoreCase(x, s) ==
  /\ x # Null
  /\ \E i \in 0..Len(x.v) :
       /\ i + Len(s.v) <= Len(x.v)
       /\ \A k \in 1..Len(s.v) : Lower(x.v[i + k]) = Lower(s.v[k])

\* page and limit of the listing last tells of, as numbers
PageOf(l) == IF Get(l.in, "page") = Undef THEN 1 ELSE ParseInt(Get(l.in, "page"))
LimitOf(l) ==
  IF Get(l.in, "limit") # Undef THEN ParseInt(Get(l.in, "limit"))
  ELSE IF l.op = "GET /" THEN DefaultLimit ELSE DefaultUserLimit

\* the listing answered the rows of f at positions from + 1 .. upto
IsSlice(list, f, from, upto) ==
  /\ Len(list) = (IF upto > from THEN upto - from ELSE 0)
  /\ \A k \in 1..Len(list) : list[k] = f[from + k].id

\* C8: every application GET / returns has the search term, compared without
\* case, in one of application_id, medical_certificate_id, sub, full_name and
\* email, and has the status asked for when one other than 'all' is given;
\* with neither parameter the listing counts every stored application.
C8_SearchAndStatusFilter ==
  (last.op = "GET /" /\ last.http = 200) =>
    LET search == Get(last.in, "search")
        status == Get(last.in, "status")
    IN /\ \A k \in 1..Len(last.list) :
            /\ Truthy(search) =>
                 \E c \in SearchColumns :
                   ContainsIgnoreCase(RowOf(last.list[k])[c], search)
            /\ (Truthy(status) /\ status # S("all")) =>
                 RowOf(last.list[k]).status = status
       /\ (~Truthy(search) /\ (~Truthy(status) \/ status = S("all"))) =>
            last.pagination.totalCount = Cardinality(applications)

\* the applications a listing is over and their order: the user's, newest
\* first; those the filters of GET / keep, in the order asked for; or, when
\* GET / fell back, all of them, newest first
Matching(l) ==
  IF l.op = "GET /user/:sub" THEN {r \in applications : r.sub = l.key}
  ELSE IF l.calls = 4 THEN applications
  ELSE {r \in applications : WhereConditions(r, l.in)}

SortOf(l) ==
  IF l.op = "GET /" /\ l.calls = 2 THEN OrderBy(l.in)
  ELSE [col |-> "created_at", order |-> "DESC"]

\* C9: a listing of GET / or GET /user/:sub with page p and limit L over N
\* matching applications answers exactly the rows at positions
\* (p-1)*L+1 .. min(p*L, N) of the sort order, totalCount = N, totalPages =
\* ceil(N/L), hasNext exactly when p < totalPages, hasPrev exactly when p > 1.
C9_Pagination ==
  (last.op \in {"GET /", "GET /user/:sub"} /\ last.http = 200) =>
    LET p == PageOf(last)
        L == LimitOf(last)
        N == Cardinality(Matching(last))
        pg == last.pagination
    IN /\ p >= 1 /\ L >= 1
       /\ pg.currentPage = p
       /\ pg.totalCount = N
       /\ \E f \in Orderings(Matching(last), SortOf(last).col, SortOf(last).order) :
            IsSlice(last.list, f, (p - 1) * L, IF p * L < N THEN p * L ELSE N)
       /\ pg.totalPages * L >= N
       /\ pg.totalPages = 0 \/ (pg.totalPages - 1) * L < N
       /\ pg.hasNext = (p < pg.totalPages)
       /\ pg.hasPrev = (p > 1)

\* page 2 with limit 1 over two applications: the second row, no next page
C9_Witness ==
  /\ last.op = "GET /" /\ last.http = 200
  /\ Get(last.in, "page") = S("2") /\ Get(last.in, "limit") = S("1")
  /\ last.pagination.totalCount = 2
  /\ Len(last.list) = 1
  /\ \A r \in applications : r.created_at >= RowOf(last.list[1]).created_at
  /\ last.pagination.hasNext = FALSE /\ last.pagination.hasPrev = TRUE

\* the filtered page query or its count query of the listing failed
MainFailed(l) ==
  \/ l.envs[1] # "ok" \/ l.envs[2] # "ok"
  \/ PageOf(l) < 1

\* the answer is the unfiltered listing: all applications newest first, the
\* same limit and offset, the count of all applications, no error
UnfilteredListing(l) ==
  /\ l.http = 200 /\ l.err = <<>>
  /\ l.pagination.totalCount = Cardinality(applications)
  /\ \E f \in Orderings(applications, "created_at", "DESC") :
       IsSlice(l.list, f, (PageOf(l) - 1) * LimitOf(l),
               IF PageOf(l) * LimitOf(l) < Cardinality(applications)
               THEN PageOf(l) * LimitOf(l) ELSE Cardinality(applications))

C11_SortAllowList ==
  last.op = "GET /" =>
    LET sortBy == Get(last.in, "sortBy")
        sortOrder == Get(last.in, "sortOrder")
        allowed == {"created_at", "updated_at", "full_name", "status",
                    "expiry_date", "application_id", "medical_certificate_id"}
    IN /\ last.orderBy.col \in allowed
       /\ last.orderBy.col =
            (IF sortBy # Undef /\ Len(sortBy.v) = 1 /\ Head(sortBy.v) \in allowed
             THEN Head(sortBy.v) ELSE "created_at")
       /\ last.orderBy.order \in {"ASC", "DESC"}
       /\ last.orderBy.order = "ASC" <=>
            (sortOrder # Undef /\ sortOrder.v \in {<<"ASC">>, <<"asc">>, <<"Asc">>})

\* a column outside the list was asked for, ascending, and rows were answered
C11_Witness ==
  /\ last.op = "GET /" /\ last.http = 200
  /\ Get(last.in, "sortBy") = S("id; --")
  /\ Get(last.in, "sortOrder") = S("ASC")
  /\ last.orderBy = [col |-> "created_at", order |-> "ASC"]
  /\ Len(last.list) = 2


------------------------------------------------------------------------------
(* Users and sessions.  The id columns of users, user_sessions and           *)
(* licence_categories are left out: no operation reads them.  A JavaScript   *)
(* number used in arithmetic carries its value in thousandths (m) next to    *)
(* its text (v).                                                             *)

\* the number k, and the number m/1000 for m no multiple of 1000
Number(k) == [t |-> "number", v |-> <<ToString(k)>>, m |-> 1000 * k]
Fraction(m) == [t |-> "number", v |-> <<ToString(m), "e-3">>, m |-> m]

\* data restricted to the fields named, undefined for the absent ones
Fields(data, names) == [f \in names |-> Get(data, f)]

\* isValidEmail(email): no email, or /^[^\s@]+@[^\s@]+\.[^\s@]+$/ ; a symbol
\* other than "@", "." and " " stands for a run of plain characters
IsValidEmail(email) ==
  \/ ~Truthy(email)
  \/ /\ email.t = "string"
     /\ \A k \in 1..Len(email.v) : email.v[k] # " "
     /\ \E i \in 2..Len(email.v) :
          /\ email.v[i] = "@"
          /\ \A k \in 1..Len(email.v) : email.v[k] = "@" => k = i
          /\ \E j \in (i + 2)..(Len(email.v) - 1) : email.v[j] = "."

\* isNaN(new Date(x).getTime()) for the date texts of the inputs
IsInvalidDate(x) == x.v = <<"soon">>

\* the error of the validation of saveUser, <<>> when the data pass
SaveUserInvalid(userData) ==
  LET missing == MissingFields(Fields(userData, {"sub", "name"}), <<"sub", "name">>)
  IN IF missing # <<>> THEN <<"Missing required fields: ">> \o missing
     ELSE IF ~IsValidEmail(Get(userData, "email")) THEN <<"Invalid email format">>
     ELSE IF Truthy(Get(userData, "date_of_birth"))
             /\ IsInvalidDate(Get(userData, "date_of_birth"))
       THEN <<"Invalid date_of_birth format. Use YYYY-MM-DD">>
     ELSE <<>>

\* const values = [sub, name, email, phone, date_of_birth, address]
SaveUserValues(userData) ==
  [f \in {"sub", "name", "email", "phone", "date_of_birth", "address"} |->
     ToParam(Get(userData, f))]

\* an upsert whose DO UPDATE SET also sets created_at
UpsertUserResetsCreatedAt(table, clock, vals) ==
  [code |-> "00000",
   rows |-> {vals @@ [created_at |-> clock, updated_at |-> clock]},
   table |-> {r \in table : r.sub # vals.sub}
             \cup {vals @@ [created_at |-> clock, updated_at |-> clock]},
   seq |-> 0]

\* INSERT INTO users ... ON CONFLICT (sub) DO UPDATE SET name, email, phone,
\* date_of_birth, address = EXCLUDED..., updated_at = CURRENT_TIMESTAMP
\* RETURNING *
UpsertUser(table, clock, vals) ==
  LET old == {r \in table : r.sub = vals.sub}
      row == IF old = {}
             THEN vals @@ [created_at |-> clock, updated_at |-> clock]
             ELSE vals @@ [created_at |-> (CHOOSE r \in old : TRUE).created_at,
                           updated_at |-> clock]
      code == IF vals.sub = Null \/ vals.name = Null THEN "23502" ELSE "00000"
  IN [code |-> code,
      rows |-> IF code = "00000" THEN {row} ELSE {},
      table |-> IF code = "00000" THEN (table \ old) \cup {row} ELSE table,
      seq |-> 0]

\* User.saveUser(userData)
SaveUserCall(userData, env, table, clock) ==
  Rethrow("Failed to save user: ",
    IF SaveUserInvalid(userData) # <<>>
    THEN NoQuery(SaveUserInvalid(userData), table, 0)
    ELSE ExecuteQuery(env, UpsertUser(table, clock, SaveUserValues(userData)),
                      table, 0))


\* expires_in INTEGER DEFAULT 3600 and the default of the destructuring, and
\* INTERVAL '30 days', in seconds
DefaultExpiresIn == 3600
ThirtyDays == 2592000

\* values of the columns of type INTEGER and TIMESTAMP that may be NULL
Int4(n) == [t |-> "integer", n |-> n]
Timestamp(n) == [t |-> "timestamp", n |-> n]

\* what a column of type INTEGER makes of a parameter: NULL of null and
\* undefined, the number of a whole number, and an error (22P02) of the rest
IntegerIn(x) ==
  CASE x.t \in {"undefined", "null"} -> [code |-> "00000", val |-> Null]
    [] x.t = "number" /\ "m" \in DOMAIN x /\ x.m % 1000 = 0 ->
         [code |-> "00000", val |-> Int4(x.m \div 1000)]
    [] OTHER -> [code |-> "22P02", val |-> Null]

\* a trigger that fires BEFORE INSERT only
CalculateExpiresAtOnInsert(new, tgOp) ==
  IF tgOp = "INSERT" /\ new.expires_in # Null
  THEN [new EXCEPT !.expires_at = Timestamp(new.created_at + new.expires_in.n)]
  ELSE new

\* the trigger set_expires_at BEFORE INSERT OR UPDATE, calculate_expires_at():
\* NEW.expires_at = NEW.created_at + (NEW.expires_in || ' seconds')::INTERVAL
CalculateExpiresAt(new, tgOp) ==
  [new EXCEPT !.expires_at = IF new.expires_in = Null THEN Null
                             ELSE Timestamp(new.created_at + new.expires_in.n)]

\* INSERT INTO user_sessions ... ON CONFLICT (session_id) DO UPDATE SET
\* access_token, token_type, expires_in, scope = EXCLUDED..., created_at =
\* CURRENT_TIMESTAMP RETURNING *.  The new row must name a stored user or no
\* user (sub REFERENCES users(sub)); a row that is updated keeps its sub.
UpsertSession(table, usersTable, clock, vals) ==
  LET old == {r \in table : r.session_id = vals.session_id}
      expires_in == IntegerIn(vals.expires_in)
      proposed == [sub |-> vals.sub, session_id |-> vals.session_id,
                   access_token |-> vals.access_token,
                   token_type |-> vals.token_type,
                   expires_in |-> expires_in.val, scope |-> vals.scope,
                   created_at |-> clock, expires_at |-> Null]
      row == IF old = {} THEN CalculateExpiresAt(proposed, "INSERT")
             ELSE CalculateExpiresAt(
                    [proposed EXCEPT !.sub = (CHOOSE r \in old : TRUE).sub,
                       !.expires_at = (CHOOSE r \in old : TRUE).expires_at],
                    "UPDATE")
      code == IF expires_in.code # "00000" THEN expires_in.code
              ELSE IF vals.session_id = Null THEN "23502"
              ELSE IF old = {} /\ vals.sub # Null
                      /\ ~\E u \in usersTable : u.sub = vals.sub THEN "23503"
              ELSE "00000"
  IN [code |-> code,
      rows |-> IF code = "00000" THEN {row} ELSE {},
      table |-> IF code = "00000" THEN (table \ old) \cup {row} ELSE table,
      seq |-> 0]

\* User.saveUserSession(userId, sessionData)
SaveUserSessionCall(userId, sessionData, env, table, usersTable, clock) ==
  LET missing == MissingFields(Fields(sessionData, {"session_id", "access_token"}),
                               <<"session_id", "access_token">>)
      vals == [sub |-> ToParam(userId),
               session_id |-> ToParam(Get(sessionData, "session_id")),
               access_token |-> ToParam(Get(sessionData, "access_token")),
               token_type |-> ToParam(Get(sessionData, "token_type")),
               expires_in |-> Default(Get(sessionData, "expires_in"),
                                      Number(DefaultExpiresIn)),
               scope |-> ToParam(Get(sessionData, "scope"))]
  IN Rethrow("Failed to save user session: ",
       IF missing # <<>>
       THEN NoQuery(<<"Missing required fields: ">> \o missing, table, 0)
       ELSE ExecuteQuery(env, UpsertSession(table, usersTable, clock, vals),
                         table, 0))

\* WHERE expires_at < CURRENT_TIMESTAMP only
IsExpiredOnly(r, clock) == r.expires_at # Null /\ r.expires_at.n < clock

\* WHERE expires_at < CURRENT_TIMESTAMP
\*    OR created_at < CURRENT_TIMESTAMP - INTERVAL '30 days'
IsExpired(r, clock) ==
  \/ r.expires_at # Null /\ r.expires_at.n < clock
  \/ r.created_at < clock - ThirtyDays

\* User.cleanupExpiredSessions(): DELETE FROM user_sessions WHERE ...
\* RETURNING session_id
CleanupExpiredSessionsCall(env, table, clock) ==
  Rethrow("Failed to cleanup expired sessions: ",
    ExecuteQuery(env,
      [code |-> "00000",
       rows |-> {[session_id |-> r.session_id] : r \in {x \in table : IsExpired(x, clock)}},
       table |-> {r \in table : ~IsExpired(r, clock)},
       seq |-> 0],
      table, 0))


\* a call on table users ends
FinishUsers(op, key, in, out) ==
  /\ users' = out.table
  /\ last' = [op |-> op, key |-> key, in |-> in, ok |-> out.ok, http |-> 0,
              err |-> out.err, sent |-> out.sent, calls |-> out.calls,
              returned |-> Cardinality(out.rows),
              existed |-> \E r \in users : r.sub = key,
              changed |-> out.table # users]
  /\ UNCHANGED <<applications, appSeq, now, procs, idle, schema,
                 licence_categories, user_sessions>>

SaveUser(userData, env) ==
  FinishUsers("saveUser", ToParam(Get(userData, "sub")), userData,
              SaveUserCall(userData, env, users, now))

\* a call on table user_sessions ends: ids are the session ids of the rows
\* the statement returned
FinishSessions(op, key, in, out) ==
  /\ user_sessions' = out.table
  /\ last' = [op |-> op, key |-> key, in |-> in, ok |-> out.ok, http |-> 0,
              err |-> out.err, sent |-> out.sent, calls |-> out.calls,
              returned |-> Cardinality(out.rows),
              ids |-> {r.session_id : r \in out.rows},
              existed |-> \E r \in user_sessions : r.session_id = key,
              changed |-> out.table # user_sessions]
  /\ UNCHANGED <<applications, appSeq, now, procs, idle, schema, users,
                 licence_categories>>

SaveUserSession(userId, sessionData, env) ==
  FinishSessions("saveUserSession", ToParam(Get(sessionData, "session_id")),
                 [userId |-> userId, sessionData |-> sessionData],
                 SaveUserSessionCall(userId, sessionData, env, user_sessions,
                                     users, now))

CleanupExpiredSessions(env) ==
  FinishSessions("cleanupExpiredSessions", Undef, <<>>,
                 CleanupExpiredSessionsCall(env, user_sessions, now))

\* the instants, in seconds, at which sessions are saved and cleaned up:
\* the start, an hour later to the second and one second after, thirty days
\* later to the second and one second after
Instants ==
  {1, 1 + DefaultExpiresIn, 2 + DefaultExpiresIn, 1 + ThirtyDays, 2 + ThirtyDays}

\* time passes up to a later instant
Elapse(t) ==
  /\ t > now
  /\ now' = t
  /\ UNCHANGED <<applications, appSeq, last, procs, idle, schema, otherTables>>

\* users given to saveUser
UserInputs ==
  {[sub |-> S("u1"), name |-> S("Ann")],
   [sub |-> S("u1"), name |-> S("Bob"), email |-> Str(<<"a", "@", "x", ".", "lk">>),
    phone |-> S("077"), date_of_birth |-> S("1990-01-01"), address |-> S("Kandy")],
   [sub |-> S("u1"), name |-> S("Ann"), email |-> Str(<<"a", "@", "x">>)],
   [sub |-> S("u1"), name |-> S("Ann"), date_of_birth |-> S("soon")],
   [sub |-> S("u1"), email |-> Null],
   [sub |-> S("u2"), name |-> S("Cy"), email |-> Null]}

NextUser ==
  \/ \E userData \in UserInputs, env \in StoreEnvs : SaveUser(userData, env)
  \/ Tick

SpecUser == Init /\ [][NextUser]_vars

\* sessions given to saveUserSession, with the user they are saved for
SessionRequests ==
  {[userId |-> S(u),
    sessionData |-> [session_id |-> S("s1"), access_token |-> S("tok"),
                     expires_in |-> e]] :
     u \in {"u1", "zz"}, e \in {Null, Number(1), Fraction(500), S("soon")}}
  \cup {[userId |-> S("u1"),
         sessionData |-> [session_id |-> S("s1"), access_token |-> S("tok")]],
        [userId |-> Null,
         sessionData |-> [session_id |-> S("s2"), access_token |-> S("tok"),
                          expires_in |-> Number(DefaultExpiresIn)]],
        [userId |-> S("u1"), sessionData |-> [session_id |-> S("s2")]]}

NextSession ==
  \/ SaveUser([sub |-> S("u1"), name |-> S("Ann")], "ok")
  \/ \E x \in SessionRequests, env \in StoreEnvs :
       SaveUserSession(x.userId, x.sessionData, env)
  \/ \E env \in StoreEnvs : CleanupExpiredSessions(env)
  \/ \E t \in Instants : Elapse(t)

SpecSession == Init /\ [][NextSession]_vars


------------------------------------------------------------------------------
(* Claims about users and sessions *)

\* C12: a successful saveUser leaves exactly one user with the sub given,
\* whose name, email, phone, date_of_birth and address are those of this
\* call and whose updated_at is the time of this call; its created_at is the
\* time of this call when the sub was new, and is that of the stored user
\* when the sub was stored already.  No other user changes.
C12_SaveUserUpserts ==
  [][(last'.op = "saveUser" /\ last'.ok /\ now' = now) =>
       LET sub == last'.key
           old == {r \in users : r.sub = sub}
           new == {r \in users' : r.sub = sub}
       IN /\ Cardinality(new) = 1
          /\ \A r \in new :
               /\ \A f \in {"name", "email", "phone", "date_of_birth", "address"} :
                    r[f] = (IF Get(last'.in, f) \in {Undef, Null} THEN Null
                            ELSE Get(last'.in, f))
               /\ r.updated_at = now
               /\ \A o \in old : r.created_at = o.created_at
               /\ old = {} => r.created_at = now
          /\ Cardinality(old) <= 1
          /\ users' \ new = users \ old]_vars

\* a user saved at one instant and saved again, with another name, later
C12_Witness ==
  /\ last.op = "saveUser" /\ last.ok /\ last.existed
  /\ Get(last.in, "name") = S("Bob")
  /\ \E r \in users :
       r.sub = last.key /\ r.name = S("Bob") /\ r.email # Null
       /\ r.created_at = 1 /\ r.updated_at = 2

\* created_at + expires_in seconds, NULL when expires_in is NULL
PlusSeconds(created_at, expires_in) ==
  IF expires_in = Null THEN Null ELSE Timestamp(created_at + expires_in.n)

\* C16: every stored session has expires_at = created_at + expires_in
\* seconds, after a first save and after a save of a stored session_id; a
\* session with expires_in = 3600 expires exactly one hour after created_at.
C16_ExpiresAt ==
  \A r \in user_sessions :
    /\ r.expires_at = PlusSeconds(r.created_at, r.expires_in)
    /\ r.expires_in = Int4(3600) => r.expires_at = Timestamp(r.created_at + 60 * 60)

\* a stored session was saved again later with another expires_in
C16_Witness ==
  /\ last.op = "saveUserSession" /\ last.ok /\ last.existed
  /\ Get(last.in.sessionData, "expires_in") = Number(1)
  /\ \E r \in user_sessions :
       /\ r.session_id = last.key
       /\ r.created_at = 1 + DefaultExpiresIn
       /\ r.expires_at = Timestamp(2 + DefaultExpiresIn)

\* C17: a successful cleanupExpiredSessions deletes exactly the sessions
\* whose expires_at is earlier than the current time or whose created_at is
\* more than 30 days before it, returns exactly the ids of the sessions it
\* deleted, and changes no other session and no other table.
C17_CleanupExact ==
  [][(last'.op = "cleanupExpiredSessions" /\ last'.ok /\ now' = now) =>
       LET gone == {r \in user_sessions :
                      \/ r.expires_at # Null /\ r.expires_at.n < now
                      \/ now - r.created_at > 30 * 24 * 60 * 60}
       IN /\ user_sessions' = user_sessions \ gone
          /\ last'.ids = {r.session_id : r \in gone}
          /\ last'.returned = Cardinality(gone)
          /\ UNCHANGED <<users, licence_categories, applications>>]_vars

\* a cleanup deleted a session that has no expires_at for its age, and kept
\* another
C17_Witness ==
  /\ last.op = "cleanupExpiredSessions" /\ last.ok
  /\ last.ids = {S("s1")}
  /\ now = 2 + ThirtyDays
  /\ \E r \in user_sessions : r.session_id = S("s2") /\ r.expires_at.n >= now


------------------------------------------------------------------------------
(* Licence categories *)

\* const categories = [...] of seedLicenceCategories
categories ==
  <<[category_code |-> S("A1"), category_label |-> S("A1"),
     description |-> S("Light Motor Cycle (up to 125cc)"),
     fee |-> Number(1500), min_age |-> Number(18), vehicle_type |-> S("Motorcycle")],
    [category_code |-> S("A"), category_label |-> S("A"),
     description |-> S("Motor Cycle (above 125cc)"),
     fee |-> Number(1500), min_age |-> Number(18), vehicle_type |-> S("Motorcycle")],
    [category_code |-> S("B1"), category_label |-> S("B1"),
     description |-> S("Motor Tricycle"),
     fee |-> Number(2000), min_age |-> Number(18), vehicle_type |-> S("Three-wheeler")],
    [category_code |-> S("B"), category_label |-> S("B"),
     description |-> S("Light Motor Car (up to 3500 kg)"),
     fee |-> Number(2500), min_age |-> Number(18), vehicle_type |-> S("Light Vehicle")],
    [category_code |-> S("C1"), category_label |-> S("C1"),
     description |-> S("Light Motor Lorry (3500 kg to 7500 kg)"),
     fee |-> Number(3000), min_age |-> Number(21), vehicle_type |-> S("Medium Vehicle")],
    [category_code |-> S("C"), category_label |-> S("C"),
     description |-> S("Heavy Motor Lorry (above 7500 kg)"),
     fee |-> Number(3500), min_age |-> Number(25), vehicle_type |-> S("Heavy Vehicle")],
    [category_code |-> S("D1"), category_label |-> S("D1"),
     description |-> S("Mini Bus (up to 16 passengers)"),
     fee |-> Number(4000), min_age |-> Number(21), vehicle_type |-> S("Passenger Vehicle")],
    [category_code |-> S("D"), category_label |-> S("D"),
     description |-> S("Heavy Bus (above 16 passengers)"),
     fee |-> Number(4500), min_age |-> Number(25), vehicle_type |-> S("Passenger Vehicle")]>>

\* a value of a column of type DECIMAL(10,2), in hundredths
Numeric(c) == [t |-> "numeric", c |-> c]

\* what a column of type DECIMAL(10,2) makes of a parameter: NULL of null and
\* undefined, a number rounded to two decimals (half away from zero), and an
\* error (22P02) of a text that is no number
DecimalIn(x) ==
  CASE x.t \in {"undefined", "null"} -> [code |-> "00000", val |-> Null]
    [] x.t = "number" /\ "m" \in DOMAIN x ->
         [code |-> "00000",
          val |-> Numeric(IF x.m >= 0 THEN (x.m + 5) \div 10
                          ELSE 0 - ((5 - x.m) \div 10))]
    [] OTHER -> [code |-> "22P02", val |-> Null]

\* what a column of type BOOLEAN makes of a parameter
BooleanIn(x) ==
  CASE x.t \in {"undefined", "null"} -> [code |-> "00000", val |-> Null]
    [] x.t = "boolean" -> [code |-> "00000", val |-> x]
    [] OTHER -> [code |-> "22P02", val |-> Null]

\* x is NaN as a number: a comparison with it is false
IsNaN(x) ==
  \/ x.t \in {"undefined", "object", "array"}
  \/ x.t = "string" /\ x.v # <<>>
  \/ x.t = "number" /\ "m" \notin DOMAIN x

\* x as a number, in thousandths, for x not NaN
ToMilli(x) ==
  CASE x.t = "number" -> x.m
    [] x.t = "boolean" /\ x.v = <<"true">> -> 1000
    [] OTHER -> 0

\* x < k, x > k and x <= k of JavaScript for a whole number k
JsLess(x, k) == ~IsNaN(x) /\ ToMilli(x) < 1000 * k
JsGreater(x, k) == ~IsNaN(x) /\ ToMilli(x) > 1000 * k
JsLessOrEqual(x, k) == ~IsNaN(x) /\ ToMilli(x) <= 1000 * k

\* the first SQLSTATE of a list of conversions that is not "00000"
RECURSIVE FirstError(_)
FirstError(codes) ==
  IF codes = <<>> THEN "00000"
  ELSE IF Head(codes) # "00000" THEN Head(codes) ELSE FirstError(Tail(codes))

\* a row proposed without its vehicle type
CategoryRowNoVehicleType(vals, clock) ==
  [category_code |-> ToParam(vals.category_code),
   category_label |-> ToParam(vals.category_label),
   description |-> ToParam(vals.description),
   fee |-> DecimalIn(vals.fee).val,
   min_age |-> IntegerIn(vals.min_age).val,
   vehicle_type |-> Null,
   is_active |-> TRUE, created_at |-> clock, updated_at |-> clock]

\* the row of licence_categories an INSERT proposes: the columns listed take
\* the parameters (NULL included), is_active and the timestamps their defaults
CategoryRow(vals, clock) ==
  [category_code |-> ToParam(vals.category_code),
   category_label |-> ToParam(vals.category_label),
   description |-> ToParam(vals.description),
   fee |-> DecimalIn(vals.fee).val,
   min_age |-> IntegerIn(vals.min_age).val,
   vehicle_type |-> ToParam(vals.vehicle_type),
   is_active |-> TRUE, created_at |-> clock, updated_at |-> clock]

\* SQLSTATE of the conversions and of the NOT NULL constraints of a proposed row
CategoryRowCode(vals, row) ==
  IF FirstError(<<DecimalIn(vals.fee).code, IntegerIn(vals.min_age).code>>) # "00000"
  THEN FirstError(<<DecimalIn(vals.fee).code, IntegerIn(vals.min_age).code>>)
  ELSE IF \E c \in {"category_code", "category_label", "description", "fee"} :
            row[c] = Null
  THEN "23502" ELSE "00000"

\* INSERT INTO licence_categories ... ON CONFLICT (category_code) DO UPDATE
\* SET category_label, description, fee, min_age, vehicle_type = EXCLUDED...,
\* updated_at = CURRENT_TIMESTAMP
UpsertCategory(table, clock, vals) ==
  LET new == CategoryRow(vals, clock)
      old == {r \in table : r.category_code = new.category_code}
      row == IF old = {} THEN new
             ELSE [new EXCEPT !.is_active = (CHOOSE r \in old : TRUE).is_active,
                              !.created_at = (CHOOSE r \in old : TRUE).created_at]
      code == CategoryRowCode(vals, new)
  IN [code |-> code,
      rows |-> IF code = "00000" THEN {row} ELSE {},
      table |-> IF code = "00000" THEN (table \ old) \cup {row} ELSE table,
      seq |-> 0]

\* INSERT INTO licence_categories ... RETURNING *
InsertCategory(table, clock, vals) ==
  LET new == CategoryRow(vals, clock)
      code == IF CategoryRowCode(vals, new) # "00000"
              THEN CategoryRowCode(vals, new)
              ELSE IF \E r \in table : r.category_code = new.category_code
              THEN "23505" ELSE "00000"
  IN [code |-> code,
      rows |-> IF code = "00000" THEN {new} ELSE {},
      table |-> IF code = "00000" THEN table \cup {new} ELSE table,
      seq |-> 0]


\* seedLicenceCategories() without a client: one executeQuery per category,
\* in order, until one fails; failAt is the statement that is cancelled, 0
\* when none is.  The categories upserted before the failure stay.
RECURSIVE SeedLicenceCategoriesCall(_, _, _, _)
SeedLicenceCategoriesCall(k, failAt, table, clock) ==
  IF k > Len(categories)
  THEN [ok |-> TRUE, err |-> <<>>, rows |-> {}, table |-> table, seq |-> 0,
        sent |-> 0, calls |-> 0]
  ELSE LET out == ExecuteQuery(IF k = failAt THEN "timeout" ELSE "ok",
                               UpsertCategory(table, clock, categories[k]),
                               table, 0)
           rest == SeedLicenceCategoriesCall(k + 1, failAt, out.table, clock)
       IN IF ~out.ok THEN out
          ELSE [rest EXCEPT !.sent = out.sent + rest.sent,
                            !.calls = out.calls + rest.calls]

\* the error of the validation of addLicenceCategory, <<>> when the data pass
AddLicenceCategoryInvalid(categoryData) ==
  LET required == <<"category_code", "category_label", "description", "fee">>
      missing == MissingFields(
                   Fields(categoryData, {required[k] : k \in 1..Len(required)}),
                   required)
      fee == Get(categoryData, "fee")
      min_age == Get(categoryData, "min_age")
  IN IF missing # <<>> THEN <<"Missing required fields: ">> \o missing
     ELSE IF JsLessOrEqual(fee, 0) THEN <<"Fee must be a positive number">>
     ELSE IF Truthy(min_age) /\ (JsLess(min_age, 16) \/ JsGreater(min_age, 100))
       THEN <<"Minimum age must be between 16 and 100">>
     ELSE <<>>

\* User.addLicenceCategory(categoryData)
AddLicenceCategoryCall(categoryData, env, table, clock) ==
  Rethrow("Failed to add licence category: ",
    IF AddLicenceCategoryInvalid(categoryData) # <<>>
    THEN NoQuery(AddLicenceCategoryInvalid(categoryData), table, 0)
    ELSE ExecuteQuery(env,
           InsertCategory(table, clock,
             Fields(categoryData, {"category_code", "category_label",
                                   "description", "fee", "min_age", "vehicle_type"})),
           table, 0))

\* COALESCE($n, column)
Coalesce(x, y) == IF x = Null THEN y ELSE x

\* UPDATE licence_categories SET column = COALESCE($n, column), ...,
\* updated_at = CURRENT_TIMESTAMP WHERE category_code = $7 RETURNING *
UpdateCategory(table, clock, categoryCode, vals) ==
  LET hit == {r \in table : r.category_code = ToParam(categoryCode)}
      code == FirstError(<<DecimalIn(vals.fee).code, IntegerIn(vals.min_age).code,
                           BooleanIn(vals.is_active).code>>)
      new == {[r EXCEPT
                 !.category_label = Coalesce(ToParam(vals.category_label), @),
                 !.description = Coalesce(ToParam(vals.description), @),
                 !.fee = Coalesce(DecimalIn(vals.fee).val, @),
                 !.min_age = Coalesce(IntegerIn(vals.min_age).val, @),
                 !.vehicle_type = Coalesce(ToParam(vals.vehicle_type), @),
                 !.is_active = IF BooleanIn(vals.is_active).val = Null THEN @
                               ELSE BooleanIn(vals.is_active).val = Bool("true"),
                 !.updated_at = clock] : r \in hit}
  IN [code |-> code,
      rows |-> IF code = "00000" THEN new ELSE {},
      table |-> IF code = "00000" THEN (table \ hit) \cup new ELSE table,
      seq |-> 0]

\* result.rows.length === 0 of the category operations
CategoryNotFound(categoryCode, out) ==
  IF out.ok /\ out.rows = {}
  THEN [out EXCEPT !.ok = FALSE,
                   !.err = <<"Licence category '">> \o ToParam(categoryCode).v
                           \o <<"' not found">>]
  ELSE out

\* User.updateLicenceCategory(categoryCode, categoryData)
UpdateLicenceCategoryCall(categoryCode, categoryData, env, table, clock) ==
  Rethrow("Failed to update licence category: ",
    IF ~Truthy(categoryCode) THEN NoQuery(<<"categoryCode is required">>, table, 0)
    ELSE IF Get(categoryData, "fee") # Undef /\ JsLessOrEqual(Get(categoryData, "fee"), 0)
    THEN NoQuery(<<"Fee must be a positive number">>, table, 0)
    ELSE CategoryNotFound(categoryCode,
           ExecuteQuery(env,
             UpdateCategory(table, clock, categoryCode,
               Fields(categoryData, {"category_label", "description", "fee",
                                     "min_age", "vehicle_type", "is_active"})),
             table, 0)))

\* a DELETE FROM licence_categories WHERE category_code = $1 RETURNING *
DeleteCategoryRow(table, clock, categoryCode) ==
  [code |-> "00000",
   rows |-> {r \in table : r.category_code = ToParam(categoryCode)},
   table |-> {r \in table : r.category_code # ToParam(categoryCode)},
   seq |-> 0]

\* UPDATE licence_categories SET is_active = false, updated_at =
\* CURRENT_TIMESTAMP WHERE category_code = $1 RETURNING *
SoftDeleteCategory(table, clock, categoryCode) ==
  LET hit == {r \in table : r.category_code = ToParam(categoryCode)}
      new == {[r EXCEPT !.is_active = FALSE, !.updated_at = clock] : r \in hit}
  IN [code |-> "00000", rows |-> new, table |-> (table \ hit) \cup new,
      seq |-> 0]

\* User.deleteLicenceCategory(categoryCode)
DeleteLicenceCategoryCall(categoryCode, env, table, clock) ==
  Rethrow("Failed to delete licence category: ",
    IF ~Truthy(categoryCode) THEN NoQuery(<<"categoryCode is required">>, table, 0)
    ELSE CategoryNotFound(categoryCode,
           ExecuteQuery(env, SoftDeleteCategory(table, clock, categoryCode),
                        table, 0)))

\* User.getLicenceCategories(options): SELECT ... FROM licence_categories
\* [WHERE is_active = true] ORDER BY category_code
GetLicenceCategoriesCall(options, env, table) ==
  LET includeInactive == Default(Get(options, "includeInactive"), Bool("false"))
  IN Rethrow("Failed to get licence categories: ",
       ExecuteQuery(env,
         [code |-> "00000",
          rows |-> {r \in table : Truthy(includeInactive) \/ r.is_active = TRUE},
          table |-> table, seq |-> 0],
         table, 0))

\* User.getLicenceCategoryByCode(categoryCode)
GetLicenceCategoryByCodeCall(categoryCode, env, table) ==
  Rethrow("Failed to get licence category: ",
    IF ~Truthy(categoryCode) THEN NoQuery(<<"categoryCode is required">>, table, 0)
    ELSE CategoryNotFound(categoryCode,
           ExecuteQuery(env,
             [code |-> "00000",
              rows |-> {r \in table : r.category_code = ToParam(categoryCode)},
              table |-> table, seq |-> 0],
             table, 0)))


\* a call on table licence_categories ends: codes are the category codes of
\* the rows the call returned, env what happened to its statement
FinishCategories(op, key, in, env, out) ==
  /\ licence_categories' = out.table
  /\ last' = [op |-> op, key |-> key, in |-> in, env |-> env, ok |-> out.ok,
              http |-> 0, err |-> out.err, sent |-> out.sent,
              calls |-> out.calls, returned |-> Cardinality(out.rows),
              codes |-> {r.category_code : r \in out.rows},
              active |-> {r.category_code : r \in {x \in out.rows : x.is_active}},
              fields |-> {[c \in {"category_code", "category_label", "fee",
                                  "vehicle_type"} |-> r[c]] : r \in out.rows},
              existed |-> \E r \in licence_categories : r.category_code = key,
              changed |-> out.table # licence_categories]
  /\ UNCHANGED <<applications, appSeq, now, procs, idle, schema, users,
                 user_sessions>>

SeedLicenceCategories(failAt) ==
  FinishCategories("seedLicenceCategories", Undef, <<>>,
                   IF failAt = 0 THEN "ok" ELSE "timeout",
                   SeedLicenceCategoriesCall(1, failAt, licence_categories, now))

AddLicenceCategory(categoryData, env) ==
  FinishCategories("addLicenceCategory",
                   ToParam(Get(categoryData, "category_code")), categoryData, env,
                   AddLicenceCategoryCall(categoryData, env, licence_categories, now))

UpdateLicenceCategory(categoryCode, categoryData, env) ==
  FinishCategories("updateLicenceCategory", ToParam(categoryCode), categoryData,
                   env,
                   UpdateLicenceCategoryCall(categoryCode, categoryData, env,
                                             licence_categories, now))

DeleteLicenceCategory(categoryCode, env) ==
  FinishCategories("deleteLicenceCategory", ToParam(categoryCode), <<>>, env,
                   DeleteLicenceCategoryCall(categoryCode, env,
                                             licence_categories, now))

GetLicenceCategories(options, env) ==
  FinishCategories("getLicenceCategories", Undef, options, env,
                   GetLicenceCategoriesCall(options, env, licence_categories))

GetLicenceCategoryByCode(categoryCode, env) ==
  FinishCategories("getLicenceCategoryByCode", ToParam(categoryCode), <<>>, env,
                   GetLicenceCategoryByCodeCall(categoryCode, env,
                                                licence_categories))

\* a new category, complete and valid
BaseCategory ==
  [category_code |-> S("X"), category_label |-> S("X"),
   description |-> S("Tractor"), fee |-> Number(100)]

\* categories given to addLicenceCategory: valid ones with a new code and
\* with a seeded code, and ones with a fee or a minimum age out of range
CategoryInputs ==
  {BaseCategory, With(BaseCategory, "category_code", S("B")),
   With(BaseCategory, "description", Undef)}
  \cup {With(BaseCategory, "fee", f) :
          f \in {Number(0), Fraction(4), S("soon")}}
  \cup {With(BaseCategory, "min_age", a) :
          a \in {Number(0), Number(15), Fraction(16500)}}
  \cup {With(With(BaseCategory, "min_age", Number(16)), "vehicle_type", S("Farm"))}

\* changes given to updateLicenceCategory
CategoryUpdates ==
  {<<>>, [fee |-> Number(200)], [fee |-> Number(0)], [fee |-> Fraction(4)],
   [min_age |-> Number(5)], [is_active |-> Bool("true")],
   [is_active |-> Bool("false")]}

\* the first statement of a seeding run that can be cancelled, 0 for none
SeedFailures == {0, 5}

NextCategories ==
  \/ \E failAt \in SeedFailures : SeedLicenceCategories(failAt)
  \/ \E categoryData \in CategoryInputs, env \in StoreEnvs :
       AddLicenceCategory(categoryData, env)
  \/ \E categoryData \in CategoryUpdates, env \in StoreEnvs :
       UpdateLicenceCategory(S("B"), categoryData, env)
  \/ UpdateLicenceCategory(S("none"), [fee |-> Number(200)], "ok")
  \/ \E code \in {S("B"), S("X"), Undef}, env \in StoreEnvs :
       DeleteLicenceCategory(code, env)
  \/ \E options \in {<<>>, [includeInactive |-> Bool("true")]} :
       GetLicenceCategories(options, "ok")
  \/ GetLicenceCategories(<<>>, "timeout")
  \/ \E code \in {S("B"), S("X"), Undef} : GetLicenceCategoryByCode(code, "ok")
  \/ GetLicenceCategoryByCode(S("B"), "timeout")

SpecCategories == Init /\ [][NextCategories]_vars


-------------------------------------------------------------------------------
(* Claims about the licence categories *)

\* the stored categories with a given code
CategoriesOf(code) == {r \in licence_categories : r.category_code = code}

\* a payload of addLicenceCategory the specification calls valid: the
\* required fields, a fee above zero and a minimum age, when given, of 16..100
ValidCategory(d) ==
  /\ \A f \in {"category_code", "category_label", "description"} :
       Get(d, f).t = "string" /\ Truthy(Get(d, f))
  /\ DecimalIn(Get(d, "fee")).code = "00000"
  /\ DecimalIn(Get(d, "fee")).val # Null
  /\ DecimalIn(Get(d, "fee")).val.c > 0
  /\ IntegerIn(Get(d, "min_age")).code = "00000"
  /\ IntegerIn(Get(d, "min_age")).val # Null
       => IntegerIn(Get(d, "min_age")).val.n \in 16..100

\* C13: addLicenceCategory called with a valid payload whose category_code is
\* already stored succeeds (when its statement is not cancelled) and updates
\* that category in place: one category with that code is left, and it
\* carries the label, the description and the fee of the payload.
C13_AddUpserts ==
  (/\ last.op = "addLicenceCategory"
   /\ last.env = "ok"
   /\ last.existed
   /\ ValidCategory(last.in))
  => /\ last.ok
     /\ Cardinality(CategoriesOf(last.key)) = 1
     /\ \A r \in CategoriesOf(last.key) :
          /\ r.category_label = Get(last.in, "category_label")
          /\ r.description = Get(last.in, "description")
          /\ r.fee = DecimalIn(Get(last.in, "fee")).val

\* C14: a deleted category stays stored with is_active false; as long as it is
\* inactive getLicenceCategoryByCode returns it and getLicenceCategories
\* without includeInactive does not list it; only updateLicenceCategory with
\* is_active true makes it active again, and no operation removes a row.
C14_SoftDelete ==
  [][/\ (last'.op = "deleteLicenceCategory" /\ last'.ok)
          => \E r \in licence_categories' :
               r.category_code = last'.key /\ r.is_active = FALSE
     /\ \A r \in licence_categories :
          \E x \in licence_categories' :
            /\ x.category_code = r.category_code
            /\ (x.is_active /\ ~r.is_active)
                 => /\ last'.op = "updateLicenceCategory"
                    /\ Get(last'.in, "is_active") = Bool("true")
     /\ (/\ last'.op = "getLicenceCategoryByCode"
         /\ last'.env = "ok"
         /\ \E r \in licence_categories :
              r.category_code = last'.key /\ ~r.is_active)
          => last'.ok /\ last'.codes = {last'.key} /\ last'.active = {}
     /\ (/\ last'.op = "getLicenceCategories"
         /\ ~Truthy(Get(last'.in, "includeInactive")))
          => \A r \in licence_categories :
               ~r.is_active => r.category_code \notin last'.codes
    ]_vars

\* category B was deleted and getLicenceCategoryByCode has just returned it,
\* inactive
C14_Witness ==
  /\ last.op = "getLicenceCategoryByCode"
  /\ last.ok
  /\ last.key = S("B")
  /\ last.codes = {S("B")}
  /\ last.active = {}
  /\ \E r \in licence_categories : r.category_code = S("B") /\ ~r.is_active

\* a stored category is in range: a fee above zero and a minimum age, when
\* the row has one, of 16..100
InRange(r) ==
  /\ r.fee # Null
  /\ r.fee.c > 0
  /\ r.min_age # Null => r.min_age.n \in 16..100

\* C15: every stored licence category has a fee above zero and a minimum age
\* between 16 and 100, and a call of addLicenceCategory or
\* updateLicenceCategory that succeeds leaves no category out of range.
C15_RangesHold ==
  /\ \A r \in licence_categories : InRange(r)
  /\ (last.op \in {"addLicenceCategory", "updateLicenceCategory"} /\ last.ok)
       => \A r \in CategoriesOf(last.key) : InRange(r)


-------------------------------------------------------------------------------
(* Reading one application: findApplicationById and GET /:id *)

\* a row of applications a JOIN users u ON a.sub = u.sub as the driver
\* returns it: one object, in which the columns of u selected after a.* take
\* the place of the columns of a of the same name
JoinedRow(a, u) ==
  [c \in DOMAIN a \cup {"name", "date_of_birth", "address"} |->
     IF c \in {"sub", "name", "email", "phone", "date_of_birth", "address"}
     THEN u[c] ELSE RowOut(a)[c]]

\* result.rows.length === 0 of findApplicationById
ApplicationNotFound(applicationId, out) ==
  IF out.ok /\ out.rows = {}
  THEN [out EXCEPT !.ok = FALSE,
                   !.err = <<"Application '">> \o ToParam(applicationId).v
                           \o <<"' not found">>]
  ELSE out

\* User.findApplicationById(applicationId)
FindApplicationByIdCall(applicationId, env, table, usersTable, seq) ==
  Rethrow("Failed to find application: ",
    IF ~Truthy(applicationId)
    THEN NoQuery(<<"applicationId is required">>, table, seq)
    ELSE ApplicationNotFound(applicationId,
           ExecuteQuery(env,
             [code |-> "00000",
              rows |-> {JoinedRow(p[1], p[2]) :
                          p \in {q \in table \X usersTable :
                                   /\ MatchesApplicationId(q[1], ToParam(applicationId))
                                   /\ q[1].sub = q[2].sub}},
              table |-> table, seq |-> seq],
             table, seq)))


\* router.get('/:id'): first is the row LIMIT 1 keeps of the rows that match,
\* any of them, since the query has no ORDER BY
GetApplicationCall(id, env, first, table, seq) ==
  LET out == ExecuteQuery(env,
               [code |-> "00000",
                rows |-> {r \in table : MatchesAnyKey(r, ToParam(id)) /\ r = first},
                table |-> table, seq |-> seq],
               table, seq)
  IN RouteAnswer(
       IF ~out.ok THEN out
       ELSE IF out.rows = {}
       THEN Respond(404, <<"Application not found">>, out)
       ELSE IF ParseThrows(RowOut(first))
       THEN [out EXCEPT !.ok = FALSE, !.err = <<"Unexpected token">>,
                        !.rows = {}]
       ELSE [out EXCEPT !.rows = {ParseJsonbFields(RowOut(first))}])

\* a read of one application ends: the store is untouched, last keeps the
\* application ids and the written_test documents of the rows answered
FinishRead(op, key, env, out) ==
  /\ last' = [op |-> op, key |-> key, in |-> <<>>, env |-> env, ok |-> out.ok,
              http |-> IF "http" \in DOMAIN out THEN out.http ELSE 0,
              err |-> out.err, sent |-> out.sent, calls |-> out.calls,
              returned |-> Cardinality(out.rows),
              existed |-> \E r \in applications : r.application_id = key,
              changed |-> FALSE,
              apps |-> {r.application_id : r \in out.rows},
              doc |-> {r.written_test : r \in out.rows}]
  /\ UNCHANGED <<applications, appSeq, now, procs, idle, schema, otherTables>>

FindApplicationById(applicationId, env) ==
  FinishRead("findApplicationById", ToParam(applicationId), env,
             FindApplicationByIdCall(applicationId, env, applications, users,
                                     appSeq))

GetApplication(id, env) ==
  \E first \in {r \in applications : MatchesAnyKey(r, ToParam(id))}
               \cup {r \in {Null} : \A x \in applications :
                                      ~MatchesAnyKey(x, ToParam(id))} :
    FinishRead("GET /:id", ToParam(id), env,
               GetApplicationCall(id, env, first, applications, appSeq))

\* User.findBySub(sub): result.rows[0], which is undefined when no user has
\* this sub
FindBySubCall(sub, env, usersTable) ==
  Rethrow("Failed to find user: ",
    IF ~Truthy(sub) THEN NoQuery(<<"sub is required">>, usersTable, 0)
    ELSE ExecuteQuery(env,
           [code |-> "00000",
            rows |-> {u \in usersTable : u.sub = ToParam(sub)},
            table |-> usersTable, seq |-> 0],
           usersTable, 0))

FindBySub(sub, env) ==
  /\ last' = [op |-> "findBySub", key |-> ToParam(sub), in |-> <<>>,
              env |-> env, ok |-> FindBySubCall(sub, env, users).ok, http |-> 0,
              err |-> FindBySubCall(sub, env, users).err,
              sent |-> FindBySubCall(sub, env, users).sent,
              calls |-> FindBySubCall(sub, env, users).calls,
              returned |-> Cardinality(FindBySubCall(sub, env, users).rows),
              existed |-> \E u \in users : u.sub = ToParam(sub),
              changed |-> FALSE]
  /\ UNCHANGED <<applications, appSeq, now, procs, idle, schema, otherTables>>

\* applications with a written test: A1 of user u1, whose id will be 1, and
\* an application_id "1" of a user that is never saved
ReadApplications ==
  <<With(BaseData, "writtenTest", Obj("w")),
    With(With(With(With(BaseData, "application_id", S("1")), "sub", S("u2")),
              "medical_certificate_id", S("M2")), "writtenTest", Arr("v")),
    With(With(BaseData, "application_id", A2), "medical_certificate_id", S("M3"))>>

\* the written test the application with this application_id was saved with
SavedWrittenTest(applicationId) ==
  Get(ReadApplications[CHOOSE k \in 1..Len(ReadApplications) :
                         ReadApplications[k].application_id = applicationId],
      "writtenTest")

\* bodies of PUT /:id that rewrite the written test, or leave it alone
ReadPutBodies ==
  {[written_test |-> S("w")], [written_test |-> Str(<<"{", "z", "}">>)],
   [written_test |-> Obj("z")], [phone |-> S("077")]}

NextRead ==
  \/ /\ Cardinality(applications) < Len(ReadApplications)
     /\ SaveApplication(ReadApplications[Cardinality(applications) + 1], "ok")
  \/ SaveUser([sub |-> S("u1"), name |-> S("Ann")], "ok")
  \/ \E body \in ReadPutBodies : PutApplication(A1, body, "ok")
  \/ \E applicationId \in {A1, S("1"), S("none"), Undef}, env \in StoreEnvs :
       FindApplicationById(applicationId, env)
  \/ \E id \in {A1, S("1"), S("M2"), S("none")}, env \in StoreEnvs :
       GetApplication(id, env)
  \/ GetApplications(<<>>, <<"ok", "ok", "ok", "ok">>, 1)
  \/ GetUserApplications(S("u1"), <<>>, <<"ok", "ok">>, 1)
  \/ \E sub \in {S("u1"), S("u2"), Undef}, env \in StoreEnvs : FindBySub(sub, env)
  \/ \E code \in {S("B"), Undef} : GetLicenceCategoryByCode(code, "ok")

SpecRead == Init /\ [][NextRead]_vars


-------------------------------------------------------------------------------
(* Claims about the written test, under SpecRead *)

\* a document that is an object (or an array, an object to typeof)
IsDocument(x) == x.t \in {"object", "array"}

\* C18 as stated: after a successful saveApplication with an object-valued
\* writtenTest, every read of the application by its application id whose
\* statement goes through (findApplicationById, GET /:id) returns it, with
\* written_test equal to the document it was saved with.
C18_RoundTripAlways ==
  (/\ last.op \in {"findApplicationById", "GET /:id"}
   /\ last.env = "ok"
   /\ \E r \in applications : r.application_id = last.key
   /\ IsDocument(SavedWrittenTest(last.key)))
  => /\ last.ok
     /\ last.apps = {last.key}
     /\ last.doc = {SavedWrittenTest(last.key)}

\* C18, amended: a successful saveApplication with an object-valued
\* writtenTest stores a document equal to it; afterwards only PUT /:id with
\* written_test in its body changes the stored document; and a read that
\* answers with an application (findApplicationById for its application_id,
\* when a user with its sub is stored; GET /:id for any one application that
\* matches the key; the listings) returns the stored written_test as it is
\* whenever that is an object, never as a string.
C18_RoundTripWhenRead ==
  [][/\ (/\ last'.op = "saveApplication"
         /\ last'.ok
         /\ IsDocument(Get(last'.in, "writtenTest")))
          => \E r \in applications' :
               /\ r.application_id = last'.key
               /\ r.written_test = Get(last'.in, "writtenTest")
     /\ \A r \in applications :
          \E x \in applications' :
            /\ x.id = r.id
            /\ x.written_test # r.written_test
                 => /\ last'.op = "PUT /:id"
                    /\ "written_test" \in DOMAIN last'.in
     /\ (last'.op = "findApplicationById" /\ last'.ok)
          => \E r \in applications :
               /\ r.application_id = last'.key
               /\ \E u \in users : u.sub = r.sub
               /\ last'.apps = {r.application_id}
               /\ last'.doc = {r.written_test}
     /\ (last'.op = "GET /:id" /\ last'.ok)
          => \E r \in applications :
               /\ MatchesAnyKey(r, last'.key)
               /\ last'.apps = {r.application_id}
               /\ IsDocument(r.written_test) => last'.doc = {r.written_test}
     /\ (last'.op \in {"GET /", "GET /user/:sub"} /\ last'.ok)
          => \A k \in 1..Len(last'.list) :
               \E r \in applications :
                 /\ r.id = last'.list[k]
                 /\ IsDocument(r.written_test)
                      => last'.docs[k] = r.written_test
    ]_vars

\* application A1 was saved with the written test {w} and GET /A1 has just
\* answered with it
C18_Witness ==
  /\ last.op = "GET /:id"
  /\ last.ok
  /\ last.key = A1
  /\ last.apps = {A1}
  /\ last.doc = {Obj("w")}
  /\ SavedWrittenTest(A1) = Obj("w")


-------------------------------------------------------------------------------
(* Claim about the frame of PUT /:id *)

\* bodies of PUT /:id with and without allow-listed fields
FrameBodies ==
  {<<>>, [admin_status |-> S("verified")],
   [phone |-> S("077"), admin_status |-> S("verified"), application_id |-> S("A9")],
   [id |-> Num("9"), sub |-> S("u9"), created_at |-> S("2020-01-01")],
   [full_name |-> Null],
   [written_test |-> Obj("w"), medical_certificate_id |-> S("M9")]}

\* application A1 is saved, then A2, both with medical certificate M1, and
\* PUT /:id and PATCH /:id/status are called with a key that names one
\* application by its application_id or by its id, names both by their
\* medical_certificate_id, or names nothing
NextPut ==
  \/ /\ Cardinality(applications) < 2
     /\ SaveApplication(With(BaseData, "application_id",
                             IF applications = {} THEN A1 ELSE A2), "ok")
  \/ \E id \in {A1, S("1"), S("none")}, body \in FrameBodies :
       PutApplication(id, body, "ok")
  \/ PutApplication(S("M1"), [phone |-> S("077")], "ok")
  \/ \E id \in {A2, S("M1")} : PatchStatus(id, [status |-> S("approved")], "ok")
  \/ \E id \in {A1, S("none")} :
       PutApplication(id, [phone |-> S("077"), email |-> S("b@x.lk")], "timeout")
  \/ Tick

SpecPut == Init /\ [][NextPut]_vars

\* the allow-listed fields a body holds
Updated(body) ==
  {AllowedFields[i] : i \in 1..Len(AllowedFields)} \cap DOMAIN body

\* C19: PUT /:id changes only the allow-listed fields present in the body and
\* updated_at, and only in the applications its key matches: id, sub,
\* application_id, medical_certificate_id, admin_status, created_at and the
\* allow-listed fields absent from the body keep their values.  A body with
\* no allow-listed field gives 400 and sends no statement, a key that matches
\* no application gives 404 (500 when the statement fails), and in both
\* cases the table stays as it was.
C19_PutFrame ==
  [][last'.op = "PUT /:id" =>
       /\ \A r \in applications :
            \E x \in applications' :
              /\ x.id = r.id
              /\ \A c \in DOMAIN r \ (Updated(last'.in) \cup {"updated_at"}) :
                   x[c] = r[c]
              /\ ~MatchesAnyKey(r, ToParam(last'.key)) => x = r
       /\ Cardinality(applications') = Cardinality(applications)
       /\ Updated(last'.in) = {}
            => /\ last'.http = 400
               /\ last'.sent = 0
               /\ applications' = applications
       /\ (/\ Updated(last'.in) # {}
           /\ \A r \in applications : ~MatchesAnyKey(r, ToParam(last'.key)))
            => /\ \/ last'.http = 404
                  \/ last'.http = 500 /\ Head(last'.err) = "Internal server error"
               /\ applications' = applications
    ]_vars

\* PUT /A1 with a phone number, an admin_status and an application_id has
\* just succeeded: the phone is stored, the other two fields are as before
C19_Witness ==
  /\ last.op = "PUT /:id"
  /\ last.ok
  /\ last.changed
  /\ "admin_status" \in DOMAIN last.in
  /\ \E r \in applications :
       /\ r.application_id = last.key
       /\ r.phone = S("077")
       /\ r.admin_status = S("unverified")


-------------------------------------------------------------------------------
(* Claim about the shape of selectCategories, under SpecDoc *)

\* C20: saveApplication with a selectCategories that is neither an array nor
\* an object (a string, a number, true, null or none at all) throws a
\* validation error: no executeQuery call is made, so no connection is taken
\* and no statement sent, and the table stays as it was.
C20_ShapeRejected ==
  (/\ last.op = "saveApplication"
   /\ Get(last.in, "selectCategories").t \notin {"array", "object"})
  => /\ ~last.ok
     /\ last.calls = 0
     /\ last.sent = 0
     /\ ~last.changed
     /\ Len(last.err) >= 2
     /\ last.err[1] = "Failed to save application: "
     /\ last.err[2] \in {"Missing required fields: ",
                         "selected_categories must be a valid array or JSON object"}

\* saveApplication has just refused the string "B" as selectCategories
C20_Witness ==
  /\ last.op = "saveApplication"
  /\ Get(last.in, "selectCategories") = S("B")
  /\ last.err = <<"Failed to save application: ",
                  "selected_categories must be a valid array or JSON object">>
  /\ last.calls = 0


-------------------------------------------------------------------------------
(* Claim about the answers to storage-constraint errors, under SpecDoc *)

\* the messages executeQuery gives to unique, foreign-key and not-null
\* violations
ConstraintMessages ==
  {TranslateError(code)[1] : code \in {"23505", "23503", "23502"}}

\* C21: a request of a route whose statement breaks a unique, foreign-key or
\* not-null constraint is answered with a status of 400..499 and the
\* translated message as the error of the answer, not with status 500.
C21_ConstraintErrorsAre400 ==
  (/\ last.op \in {"PUT /:id", "PATCH /:id/status"}
   /\ \E k \in 1..Len(last.err) : last.err[k] \in ConstraintMessages)
  => /\ last.http \in 400..499
     /\ last.err[1] \in ConstraintMessages


-------------------------------------------------------------------------------
(* Claim about the owners of the stored rows, under SpecRead *)

\* a user with this sub is stored
UserExists(sub) == \E u \in users : u.sub = sub

\* C22: every stored application and every stored session carries a sub that
\* names a stored user, and saveApplication for a sub with no user row fails
\* with 'Referenced record does not exist' and stores nothing.
C22_RowsOwnedByUser ==
  /\ \A r \in applications : UserExists(r.sub)
  /\ \A r \in user_sessions : UserExists(r.sub)
  /\ (/\ last.op = "saveApplication"
      /\ ~UserExists(ToParam(Get(last.in, "sub"))))
       => /\ ~last.ok
          /\ ~last.changed
          /\ last.err = <<"Failed to save application: ",
                          "Referenced record does not exist">>


-------------------------------------------------------------------------------
(* Claim about addLicenceCategory followed by getLicenceCategoryByCode,     *)
(* under SpecCategories                                                      *)

\* what getLicenceCategoryByCode returns for the code of the category just
\* added
ReadBack == GetLicenceCategoryByCodeCall(last.key, "ok", licence_categories)

\* C23 as stated: after a successful addLicenceCategory,
\* getLicenceCategoryByCode with the same code returns a category whose fee,
\* label and vehicle type equal those of the payload.
C23_AddThenGetEqual ==
  (last.op = "addLicenceCategory" /\ last.ok)
  => /\ ReadBack.ok
     /\ \A r \in ReadBack.rows :
          /\ 10 * r.fee.c = Get(last.in, "fee").m
          /\ r.category_label = Get(last.in, "category_label")
          /\ r.vehicle_type = ToParam(Get(last.in, "vehicle_type"))

\* C23, amended: after a successful addLicenceCategory,
\* getLicenceCategoryByCode with the same code returns one category with the
\* label and the vehicle type of the payload and with its fee rounded to two
\* decimals; only updateLicenceCategory and seedLicenceCategories change the
\* fee, the label or the vehicle type of a stored category, and
\* getLicenceCategoryByCode returns those fields as they are stored.
C23_AddThenGetRounded ==
  [][/\ (last'.op = "addLicenceCategory" /\ last'.ok)
          => LET got == GetLicenceCategoryByCodeCall(last'.key, "ok",
                                                     licence_categories')
             IN /\ got.ok
                /\ Cardinality(got.rows) = 1
                /\ \A r \in got.rows :
                     /\ r.fee.c = (Get(last'.in, "fee").m + 5) \div 10
                     /\ r.category_label = Get(last'.in, "category_label")
                     /\ r.vehicle_type = ToParam(Get(last'.in, "vehicle_type"))
     /\ \A r \in licence_categories :
          \E x \in licence_categories' :
            /\ x.category_code = r.category_code
            /\ (\/ x.fee # r.fee
                \/ x.category_label # r.category_label
                \/ x.vehicle_type # r.vehicle_type)
                 => last'.op \in {"updateLicenceCategory", "seedLicenceCategories"}
     /\ (last'.op = "getLicenceCategoryByCode" /\ last'.ok)
          => last'.fields =
               {[c \in {"category_code", "category_label", "fee", "vehicle_type"}
                   |-> r[c]] : r \in {x \in licence_categories :
                                        x.category_code = last'.key}}
    ]_vars

\* category X was added with a vehicle type and getLicenceCategoryByCode has
\* just returned it with the fee, the label and the vehicle type given
C23_Witness ==
  /\ last.op = "getLicenceCategoryByCode"
  /\ last.ok
  /\ last.key = S("X")
  /\ last.fields = {[category_code |-> S("X"), category_label |-> S("X"),
                     fee |-> Numeric(10000), vehicle_type |-> S("Farm")]}


-------------------------------------------------------------------------------
(* Statistics: getApplicationStats and GET /stats/summary *)

\* COUNT(...): the count as the text of a bigint
CountText(rows) == Str(<<ToString(Cardinality(rows))>>)

\* parseInt(x, 10) || 0
ParseIntOrZero(x) == IF x.t = "string" /\ x.v # <<>> THEN ParseInt(x) ELSE 0

\* COUNT(CASE WHEN status = 'name' THEN 1 END)
CountStatus(table, name) == CountText({r \in table : r.status = S(name)})

\* the statistics with COUNT(status) AS total, which leaves out the rows
\* without status
SelectStatsCountStatus(table, seq) ==
  [code |-> "00000",
   rows |-> {[pending |-> CountStatus(table, "pending"),
              approved |-> CountStatus(table, "approved"),
              rejected |-> CountStatus(table, "rejected"),
              total |-> CountText({r \in table : r.status # Null})]},
   table |-> table, seq |-> seq]

\* SELECT COUNT(CASE ...) AS pending, ... , COUNT(id) AS total FROM applications
SelectStats(table, seq) ==
  [code |-> "00000",
   rows |-> {[pending |-> CountStatus(table, "pending"),
              approved |-> CountStatus(table, "approved"),
              rejected |-> CountStatus(table, "rejected"),
              total |-> CountText(table)]},
   table |-> table, seq |-> seq]

\* User.getApplicationStats()
GetApplicationStatsCall(env, table, seq) ==
  LET out == Rethrow("Failed to get application stats: ",
                     ExecuteQuery(env, SelectStats(table, seq), table, seq))
  IN out @@ [stats |-> IF out.ok
                       THEN LET stats == CHOOSE r \in out.rows : TRUE
                            IN [total |-> ParseIntOrZero(stats.total),
                                pending |-> ParseIntOrZero(stats.pending),
                                approved |-> ParseIntOrZero(stats.approved),
                                rejected |-> ParseIntOrZero(stats.rejected)]
                       ELSE <<>>]

\* SELECT status, COUNT(*) as count FROM applications GROUP BY status: one row
\* for each value of status, NULL included
SelectByStatus(table, seq) ==
  [code |-> "00000",
   rows |-> {[status |-> st, count |-> CountText({r \in table : r.status = st})] :
               st \in {r.status : r \in table}},
   table |-> table, seq |-> seq]

\* acc[row.status]: the property key of a status, "null" for NULL
PropertyKey(x) == IF x = Null THEN Str(<<"null">>) ELSE x

\* rows.reduce((sum, row) => sum + parseInt(row.count), 0)
RECURSIVE SumCounts(_)
SumCounts(rows) ==
  IF rows = {} THEN 0
  ELSE LET row == CHOOSE r \in rows : TRUE
       IN ParseInt(row.count) + SumCounts(rows \ {row})

\* router.get('/stats/summary')
GetStatsSummaryCall(env, table, seq) ==
  LET out == ExecuteQuery(env, SelectByStatus(table, seq), table, seq)
  IN RouteAnswer(out)
     @@ [stats |-> IF out.ok
                   THEN [total |-> SumCounts(out.rows),
                         byStatus |-> [k \in {PropertyKey(row.status) : row \in out.rows} |->
                                         ParseInt((CHOOSE row \in out.rows :
                                                     PropertyKey(row.status) = k).count)]]
                   ELSE <<>>]

\* a statistics call ends: the store is untouched, last keeps the answer
FinishStats(op, env, out) ==
  /\ last' = [op |-> op, key |-> Undef, in |-> <<>>, env |-> env, ok |-> out.ok,
              http |-> IF "http" \in DOMAIN out THEN out.http ELSE 0,
              err |-> out.err, sent |-> out.sent, calls |-> out.calls,
              returned |-> Cardinality(out.rows), existed |-> FALSE,
              changed |-> FALSE, stats |-> out.stats]
  /\ UNCHANGED <<applications, appSeq, now, procs, idle, schema, otherTables>>

GetApplicationStats(env) ==
  FinishStats("getApplicationStats", env,
              GetApplicationStatsCall(env, applications, appSeq))

GetStatsSummary(env) ==
  FinishStats("GET /stats/summary", env,
              GetStatsSummaryCall(env, applications, appSeq))

\* the application_id of the k-th application saved
StatsIds == <<A1, A2, S("A3")>>

\* applications are saved one after the other with any status saveApplication
\* takes, PUT /:id changes or clears the status of A1, and the statistics are
\* asked for
NextStats ==
  \/ /\ Cardinality(applications) < Len(StatsIds)
     /\ \E status \in {Undef, S("approved"), S("rejected"), S("submitted")} :
          SaveApplication(With(With(BaseData, "application_id",
                                    StatsIds[Cardinality(applications) + 1]),
                               "status", status), "ok")
  \/ \E status \in {S("approved"), Null} :
       PutApplication(A1, [status |-> status], "ok")
  \/ \E env \in StoreEnvs : GetApplicationStats(env)
  \/ \E env \in StoreEnvs : GetStatsSummary(env)

SpecStats == Init /\ [][NextStats]_vars

\* the sum of the values of f at the keys
RECURSIVE SumOver(_, _)
SumOver(f, keys) ==
  IF keys = {} THEN 0
  ELSE LET k == CHOOSE x \in keys : TRUE
       IN f[k] + SumOver(f, keys \ {k})

\* the stored applications with this status
WithStatus(st) == {r \in applications : r.status = st}

\* C24: getApplicationStats returns total equal to the number of stored
\* applications and pending, approved and rejected equal to the numbers of
\* applications with those statuses; GET /stats/summary returns the same
\* total, equal to the sum of its byStatus counts, with an entry in byStatus
\* exactly for each status some application has (the entry "null" for the
\* applications without status), each the number of those applications.
C24_StatsCount ==
  /\ (last.op = "getApplicationStats" /\ last.env = "ok")
       => /\ last.ok
          /\ last.stats.total = Cardinality(applications)
          /\ last.stats.pending = Cardinality(WithStatus(S("pending")))
          /\ last.stats.approved = Cardinality(WithStatus(S("approved")))
          /\ last.stats.rejected = Cardinality(WithStatus(S("rejected")))
  /\ (last.op = "GET /stats/summary" /\ last.env = "ok")
       => /\ last.ok
          /\ last.http = 200
          /\ last.stats.total = Cardinality(applications)
          /\ DOMAIN last.stats.byStatus =
               {PropertyKey(r.status) : r \in applications}
          /\ \A r \in applications :
               last.stats.byStatus[PropertyKey(r.status)] =
                 Cardinality(WithStatus(r.status))
          /\ last.stats.total = SumOver(last.stats.byStatus, DOMAIN last.stats.byStatus)

\* three applications are stored, two of them pending, and GET /stats/summary
\* has just answered total 3 with byStatus pending 2 and approved 1
C24_Witness ==
  /\ last.op = "GET /stats/summary"
  /\ last.ok
  /\ last.stats = [total |-> 3,
                   byStatus |-> (S("pending") :> 2) @@ (S("approved") :> 1)]
  /\ Cardinality(applications) = 3


-------------------------------------------------------------------------------
(* Claim about the count query of GET /, under SpecList *)

\* the applications the predicate of the answered page keeps: those the
\* status and search conditions keep, or all of them when the handler fell
\* back to the unfiltered queries
KeptBy(l) ==
  IF l.calls = 2 THEN {r \in applications : WhereConditions(r, l.in)}
  ELSE applications

\* C25: the totalCount GET / answers is the number of stored applications
\* that satisfy the status and search predicate of the page it answers, and
\* every row of the page satisfies that predicate.
C25_CountSharesPredicate ==
  (last.op = "GET /" /\ last.http = 200)
  => /\ last.pagination.totalCount = Cardinality(KeptBy(last))
     /\ \A k \in 1..Len(last.list) : RowOf(last.list[k]) \in KeptBy(last)
     /\ Len(last.list) <= last.pagination.totalCount

\* three applications are stored and GET / with a status and a search term
\* has just answered the one application both keep, with totalCount 1
C25_Witness ==
  /\ last.op = "GET /" /\ last.http = 200 /\ last.calls = 2
  /\ Truthy(Get(last.in, "search")) /\ Truthy(Get(last.in, "status"))
  /\ Cardinality(applications) = 3
  /\ last.pagination.totalCount = 1
  /\ Len(last.list) = 1


-------------------------------------------------------------------------------
(* Claim about the statement timeout, under SpecPool *)

\* C26: every statement a call sends to the store goes through executeQuery:
\* the call has sent SET statement_timeout on its connection before it.
C26_EveryStatementTimed ==
  \A p \in Procs :
    \A k \in 1..Len(procs[p].log) :
      procs[p].log[k] # "SET"
        => \E j \in 1..(k - 1) : procs[p].log[j] = "SET"


-------------------------------------------------------------------------------
(* Claim about the by-key lookups, under SpecRead *)

\* the last text of an error
LastOf(err) == err[Len(err)]

\* C27: a by-key lookup (findBySub, findApplicationById,
\* getLicenceCategoryByCode) whose statement goes through and matches no row
\* raises a not-found error and returns nothing; a lookup without key raises
\* a validation error ("... is required"), which is not the not-found error.
C27_LookupsRaiseNotFound ==
  (/\ last.op \in {"findBySub", "findApplicationById", "getLicenceCategoryByCode"}
   /\ last.env = "ok")
  => IF last.key = Null
     THEN /\ ~last.ok
          /\ last.err[2] \in {"sub is required", "applicationId is required",
                              "categoryCode is required"}
     ELSE last.returned = 0
            => /\ ~last.ok
               /\ LastOf(last.err) = "' not found"


-------------------------------------------------------------------------------
(* Claim about the rows one update request changes, under SpecPut *)

\* C28: one PATCH /:id/status or PUT /:id request changes at most one
\* application, whatever the id names.
C28_AtMostOneRowChanged ==
  [][last'.op \in {"PUT /:id", "PATCH /:id/status"}
       => Cardinality(applications \ applications') <= 1]_vars


-------------------------------------------------------------------------------
(* GET / statement by statement, while applications are saved *)

\* a query of Promise.all that the store has not answered yet
Pending == [pending |-> TRUE]

\* a GET / request in progress: pc says whether the filtered queries or the
\* fallback queries of the catch (dbError) block are out, page and count are
\* what executeQuery answered to each, sent and calls count the statements
\* and the calls of executeQuery so far
ListRequest(q, envs) ==
  [op |-> "GET /", pc |-> "main", q |-> q, envs |-> envs, page |-> Pending,
   count |-> Pending, sent |-> 0, calls |-> 0]

\* await User.executeQuery(query, queryParams), or the
\* simpleQuery of the fallback, on the store as it is when the statement runs
PageQueryOf(req, heap, table, seq) ==
  LET page == NumberOr(Get(req.q, "page"), 1)
      limit == NumberOr(Get(req.q, "limit"), DefaultLimit)
      offset == Offset(page, limit)
      ordered == OrderedRows({r \in table : WhereConditions(r, req.q)},
                             OrderBy(req.q).col, OrderBy(req.q).order, heap)
      simple == OrderedRows(table, "created_at", "DESC", heap)
  IN IF req.pc = "main"
     THEN ExecuteQuery(req.envs[1],
                       SelectPage(ordered, limit, offset, table, seq), table, seq)
     ELSE ExecuteQuery(req.envs[3],
                       SelectPage(simple, limit, offset, table, seq), table, seq)

\* await User.executeQuery(countQuery, queryParams.slice(0, -2)), or the
\* simpleCountQuery of the fallback, on the store as it is when the
\* statement runs
CountQueryOf(req, table, seq) ==
  IF req.pc = "main"
  THEN ExecuteQuery(req.envs[2],
                    SelectCount({r \in table : WhereConditions(r, req.q)},
                                table, seq), table, seq)
  ELSE ExecuteQuery(req.envs[4], SelectCount(table, table, seq), table, seq)

\* the request arrives and Promise.all sends its two queries, each with an
\* executeQuery of its own
StartGetApplications(p, q, envs) ==
  /\ procs[p].pc = "idle"
  /\ procs' = [procs EXCEPT ![p] = ListRequest(q, envs)]
  /\ UNCHANGED <<idle, schema, storeVars>>

\* the store runs the page query
PageQuery(p) ==
  /\ procs[p].op = "GET /" /\ procs[p].page = Pending
  /\ \E heap \in Listings(applications) :
       procs' = [procs EXCEPT ![p].page =
                   PageQueryOf(procs[p], heap, applications, appSeq)]
  /\ UNCHANGED <<idle, schema, storeVars>>

\* the store runs the count query
CountQuery(p) ==
  /\ procs[p].op = "GET /" /\ procs[p].count = Pending
  /\ procs' = [procs EXCEPT ![p].count =
                 CountQueryOf(procs[p], applications, appSeq)]
  /\ UNCHANGED <<idle, schema, storeVars>>

\* both queries are settled and the handler goes on: it answers, or its
\* catch (dbError) block sends the two fallback queries, or it calls next()
AfterPromiseAll(p) ==
  /\ procs[p].op = "GET /"
  /\ procs[p].page # Pending /\ procs[p].count # Pending
  /\ LET req == procs[p]
         page == NumberOr(Get(req.q, "page"), 1)
         limit == NumberOr(Get(req.q, "limit"), DefaultLimit)
         both == ParseJsonb(PromiseAll(req.page, req.count, 1))
         sent == req.sent + both.sent
         calls == req.calls + both.calls
     IN IF ~both.ok /\ req.pc = "main"
        THEN /\ procs' = [procs EXCEPT ![p] =
                            [req EXCEPT !.pc = "fallback", !.page = Pending,
                                        !.count = Pending, !.sent = sent,
                                        !.calls = calls]]
             /\ UNCHANGED last
        ELSE /\ procs' = [procs EXCEPT ![p] = NoCall]
             /\ last' = ListDigest("GET /", Undef, req.q, req.envs,
                          (IF both.ok
                           THEN ListAnswer(both, page, limit, sent, calls,
                                           applications, appSeq)
                           ELSE ListError(both.err, sent, calls,
                                          applications, appSeq))
                          @@ [orderBy |-> OrderBy(req.q)])
  /\ UNCHANGED <<applications, appSeq, now, idle, schema, otherTables>>

\* requests of GET / that are answered statement by statement
RaceRequests ==
  {[q |-> q, envs |-> <<"ok", "ok", "ok", "ok">>] :
     q \in {<<>>, [limit |-> S("1")], [status |-> S("approved")]}}
  \cup {[q |-> <<>>, envs |-> <<"timeout", "ok", "ok", "ok">>],
        [q |-> <<>>, envs |-> <<"ok", "ok", "timeout", "ok">>]}

\* the applications are saved one after the other while one GET / request
\* after the other is answered
NextRace ==
  \/ /\ Cardinality(applications) < Len(ListApplications)
     /\ SaveApplication(ListApplications[Cardinality(applications) + 1], "ok")
  \/ \E x \in RaceRequests : StartGetApplications(1, x.q, x.envs)
  \/ PageQuery(1)
  \/ CountQuery(1)
  \/ AfterPromiseAll(1)

SpecRace == Init /\ [][NextRace]_vars

\* C29: the rows and the totalCount of a GET / answer come from one state
\* of the store: page 1 never has more rows than totalCount says there are.
C29_PageWithinCount ==
  (last.op = "GET /" /\ last.ok /\ last.pagination.currentPage = 1)
    => last.returned <= last.pagination.totalCount


-------------------------------------------------------------------------------
(* Calls that wait for a connection of the pool, under fair scheduling *)

\* await Promise.all([User.executeQuery(...), User.executeQuery(...)]) of a
\* listing route: two calls of executeQuery start together, each connects
\* for itself, and the handler holds no connection while it awaits them;
\* with names the other call of the pair
StartPromiseAll(p1, p2) ==
  /\ p1 # p2
  /\ procs[p1].pc = "idle" /\ procs[p2].pc = "idle"
  /\ procs' = [procs EXCEPT
                 ![p1] = [NoCall EXCEPT !.op = "executeQuery", !.pc = "connect"]
                           @@ [with |-> p2],
                 ![p2] = [NoCall EXCEPT !.op = "executeQuery", !.pc = "connect"]
                           @@ [with |-> p1]]
  /\ UNCHANGED <<idle, schema, storeVars>>

\* the caller takes the outcome of a call that has ended; the next call may
\* start, as the fallback queries of a listing route do after a failure
Return(p) ==
  /\ procs[p].pc = "done"
  /\ procs' = [procs EXCEPT ![p] = NoCall]
  /\ UNCHANGED <<idle, schema, storeVars>>

\* db.connect() hands out a connection
Acquire(p) == Connect(p) /\ procs'[p].held = 1

\* initTables is called by the process that starts the server; any process
\* calls executeQuery, alone or as one of the two queries of a listing
NextLive ==
  \/ \E p \in Procs :
       \/ Start(p, "executeQuery")
       \/ p = 1 /\ Start(p, "initTables")
       \/ Connect(p)
       \/ ExecuteQueryRun(p)
       \/ InitTablesRun(p)
       \/ InitTablesRollback(p)
       \/ Release(p)
       \/ Return(p)
  \/ \E p1, p2 \in Procs : StartPromiseAll(p1, p2)

\* every statement sent is answered, every call that has left its try block
\* reaches its finally, and the pool serves a waiting db.connect() when
\* connections keep coming back
Fairness ==
  \A p \in Procs :
    /\ WF_vars(ExecuteQueryRun(p))
    /\ WF_vars(InitTablesRun(p))
    /\ WF_vars(InitTablesRollback(p))
    /\ WF_vars(Release(p))
    /\ SF_vars(Acquire(p))

SpecLive == InitPool /\ [][NextLive]_vars /\ Fairness

\* C30: no call waits for a connection while it holds one, and no call
\* waits for ever: every call that has started, alone, as one of the two
\* queries of a listing or as initTables, comes to its end, whatever the
\* other calls do.
C30_EveryCallCompletes ==
  /\ [](\A p \in Procs : procs[p].pc = "connect" => procs[p].held = 0)
  /\ \A p \in Procs : (procs[p].pc = "connect") ~> (procs[p].pc = "done")

\* C30 witness: the pool is exhausted by one query of a listing while the
\* other query of the pair waits in db.connect().
C30_Witness ==
  \E p \in Procs :
    /\ "with" \in DOMAIN procs[p]
    /\ procs[p].held = 1
    /\ procs[procs[p].with].pc = "connect"
    /\ idle = 0

====
